---- MODULE Spec2Model ----
(***************************************************************************)
(* A model of jkosik/crypto-trader: the spread order planner               *)
(* (PlaceSpreadOrders with a narrowing factor), the order-pair coordinator *)
(* (cmd/trader/main.go) and the supervised loop with its price-limit       *)
(* watchdog (cmd/loop).                                                    *)
(*                                                                         *)
(* Prices are integers counting 10^-PriceScale USD.  The code computes in  *)
(* float64; the model computes the same expressions in exact rational      *)
(* arithmetic (numerators over a common denominator).  A float64 result    *)
(* differs from the exact one by a rounding error far smaller than the     *)
(* distance between two values of the model, so math.Round agrees with     *)
(* exact rounding except where the exact value lies halfway between two    *)
(* steps: there the rounding error decides, and the model lets math.Round  *)
(* go either way (Go also lets a build fuse x*y+z, so the error is not     *)
(* fixed by the source).                                                   *)
(***************************************************************************)
EXTENDS Integers, Sequences, FiniteSets, TLC

\* ------------------------------------------------------------------ bounds
PriceScale == 2          \* digits after the decimal point a price can carry
MinTick == 95            \* the small price range: MinTick..MaxTick ticks
MaxTick == 102
FDen == 4                \* narrowing factors are multiples of 1/FDen
MaxVolume == 2           \* volumes 1..MaxVolume, and the scenario's 10
MaxFaults == 2           \* failed or lost exchange requests in one behaviour
MaxOrders == 4           \* orders the exchange accepts in one behaviour
MaxIterations == 2       \* -iterations of the supervised loop
MaxSlip == 3             \* ticks an execution may be better than the limit price

\* profitPercent = 0.005, in thousandths
ProfitPerMille == 5

Unit == 10 ^ PriceScale  \* one USD in ticks

\* Snapshots: every pair of the small range (crossed books included), every
\* pair of the prices around 100 USD (100.00, 100.02, 100.60, 101.00), and one
\* wide book, bid 0.20 / ask 1.50.
SmallPrices == MinTick .. MaxTick
ScenarioPrices == {100 * Unit, 100 * Unit + 2, 100 * Unit + 6 * (Unit \div 10), 101 * Unit}
WideBid == Unit \div 5
WideAsk == 3 * (Unit \div 2)
Snapshots ==
  [BidPrice : SmallPrices, AskPrice : SmallPrices]
    \cup [BidPrice : ScenarioPrices, AskPrice : ScenarioPrices]
    \cup {[BidPrice |-> WideBid, AskPrice |-> WideAsk]}
Volumes == (1 .. MaxVolume) \cup {10}
\* -1/FDen .. (FDen+1)/FDen: in range, below 0 and above 1.
Factors == -1 .. (FDen + 1)

NoId == 0

VARIABLES
  npc,                  \* the narrowing trader's position
  spreadInfo,           \* [BidPrice, AskPrice]: the snapshot handed to the planner
  volume,
  spreadNarrowFactor,   \* numerator over FDen, as given on the command line
  untradeable,
  newBuyPrice, newSellPrice,
  estimatedProfit,      \* ticks * volume
  estimatedPercentGain, \* [num, den]: the rational num/den
  placed,               \* the placement requests sent: <<[type, price]>>
  slack,                \* the Slack messages attempted
  err,                  \* the error PlaceSpreadOrders returned, "" for none
  exitCode              \* -1 while running

\* The trader of cmd/trader/main.go, the exchange it talks to, and what the
\* claims need remembered of its requests.
VARIABLES
  pc,                   \* the trader's position in main
  orderFlag, editOrder, \* -order, -editorder
  placedBuyId,          \* PlaceSpreadOrders' local buyTxId
  buyTxId, sellTxId,    \* main's transaction ids, NoId for ""
  sellOrderEdited, buyOrderEdited,
  buyOrder, sellOrder,  \* the statuses read in this poll cycle, "" before
  decision,             \* what the last completed cycle selected
  notified,             \* Slack messages attempted on a filled pair
  traderExit,           \* the exit code, -1 while running
  placeErr,             \* the error PlaceSpreadOrders returned to main, "" for none
  config,               \* [coin, volume, apiKey, apiSecret]: flags and environment
  setupErr,             \* the error main exited on before placing, "" for none
  sent,                 \* the kinds of request this trader has sent to the exchange
  orders,               \* the exchange: <<[type, status, by]>>, the id is the index
  faults,               \* requests that failed or whose response was lost
  returnedIds,          \* ids PlaceSpreadOrders / EditOrder returned to main
  editsSent, editsOk,   \* edit requests per leg: sent, answered with a new id
  lost,                 \* ids the exchange created whose response was lost
  retired,              \* ids main replaced after a successful edit
  stale                 \* retired ids a later request was sent for

traderVars == <<pc, orderFlag, editOrder, placedBuyId, buyTxId, sellTxId,
                sellOrderEdited, buyOrderEdited, buyOrder, sellOrder, decision,
                notified, traderExit, placeErr, config, setupErr, sent>>
exchVars == <<orders, faults>>
histVars == <<returnedIds, editsSent, editsOk, lost>>
reqVars == <<retired, stale>>

planVars == <<npc, spreadInfo, volume, spreadNarrowFactor, untradeable, newBuyPrice,
              newSellPrice, estimatedProfit, estimatedPercentGain, placed, slack,
              err, exitCode>>

\* The supervised loop and its watchdog (unnamed/part_004).
VARIABLES
  lpc,          \* where the supervisor's main is
  i,            \* the loop counter
  canceled,     \* the shared flag
  mu,           \* who holds the mutex
  wdpc,         \* where monitorPrice is
  ctxDone,      \* cancel() was called
  attempt,      \* which CancelAllOrders attempt the watchdog is in
  report,       \* the lines written to the report file: <<[by, line, n]>>,
                \* n the iteration a success line names
  supExit       \* exit code of the supervisor, -1 while it runs

supVars == <<lpc, i, canceled, mu, wdpc, ctxDone, attempt, report, supExit>>

\* What monitorPrice read in its tick and what it sent.
VARIABLES
  currentPrice, \* spreadInfo.BidPrice of the tick, in ticks
  available,    \* balance.Available, in 10^-6 of the base coin
  openOrders,   \* what the tick's latest GetOpenOrders returned: "unread" before
                \* the first, then "empty" or "open"
  exitRequests  \* the exit orders sent: <<[type, price (ticks), volume (10^-5)]>>

wdVars == <<currentPrice, available, openOrders, exitRequests>>

\* The repricing computation of the poll loop on its own, the nonces of the
\* private requests, and the snapshot of the placement gate.
VARIABLES
  rpc,          \* "read": both statuses read; "sent": the edit request is out
  closedLeg,    \* the leg read closed
  descrPrice,   \* its Descr.Price, in ticks
  execPrice,    \* the average price it was executed at, in ticks
  editRequest,  \* the EditOrder payload: [leg, price (10^-5 USD), volume]
  clock,        \* wall clock, in 1/TicksPerMs of a millisecond
  nonces,       \* the nonces sent, in request order: <<[by, site, nonce]>>
  gateInfo,     \* the snapshot of the last gate iteration, [BidPrice, AskPrice]
  cancelRun     \* one call of CancelAllOrders: [pc, seen, todo, asked, result]

auxVars == <<rpc, closedLeg, descrPrice, execPrice, editRequest, clock, nonces, gateInfo,
             cancelRun>>

vars == <<planVars, traderVars, exchVars, histVars, reqVars, supVars, wdVars, auxVars>>

\* ----------------------------------------------------- the planner, pure

RECURSIVE TrailingZeros(_)
TrailingZeros(p) == IF p % 10 # 0 THEN 0 ELSE 1 + TrailingZeros(p \div 10)

\* strconv.FormatFloat(ask, 'f', -1, 64) prints the shortest representation;
\* decimals is the number of digits after its ".", 0 when there is none.
Decimals(askPrice) ==
  IF askPrice % Unit = 0 THEN 0 ELSE PriceScale - TrailingZeros(askPrice)

\* Mutant: the factor used as given.
ClampFactor_None(f) == f

\* "Ensure spreadNarrowFactor is between 0 and 1"
ClampFactor(f) == IF f < 0 THEN 0 ELSE IF f > FDen THEN FDen ELSE f

\* Narrowed prices before rounding, as numerators over 2 * FDen:
\*   center = (ask + bid) / 2
\*   buy  = bid + (center - bid) * f,  sell = ask - (ask - center) * f
PlanDen == 2 * FDen
CenterNum(si) == FDen * (si.AskPrice + si.BidPrice)
RawBuyNum(si, f) == PlanDen * si.BidPrice + (si.AskPrice - si.BidPrice) * f
RawSellNum(si, f) == PlanDen * si.AskPrice - (si.AskPrice - si.BidPrice) * f

\* math.Round(x * 10^decimals) / 10^decimals for x = num / (PlanDen * Unit) USD,
\* back in ticks.  Off a tie it is the nearest step; on a tie (x * 10^decimals
\* exactly halfway) the float64 rounding error decides: tieUp.
IsTie(num, decimals) ==
  LET step == 10 ^ (PriceScale - decimals)
  IN  (2 * num) % (2 * PlanDen * step) = PlanDen * step

RoundTo(num, decimals, tieUp) ==
  LET step == 10 ^ (PriceScale - decimals)
      down == (num \div (PlanDen * step)) * step
  IN  IF IsTie(num, decimals)
        THEN (IF tieUp THEN down + step ELSE down)
        ELSE ((2 * num + PlanDen * step) \div (2 * PlanDen * step)) * step

NarrowedBuy(si, f, tieUp) ==
  RoundTo(RawBuyNum(si, ClampFactor(f)), Decimals(si.AskPrice), tieUp)
NarrowedSell(si, f, tieUp) ==
  RoundTo(RawSellNum(si, ClampFactor(f)), Decimals(si.AskPrice), tieUp)

\* With factor 1 and ask <= 3*bid <= 9*ask, center-bid and ask-center are exact
\* in float64 (each operand is within a factor 2 of the other), so both
\* narrowed prices are the very same float64, center, and round alike.
SameFloat(si, f) ==
  /\ ClampFactor(f) = FDen
  /\ si.AskPrice <= 3 * si.BidPrice
  /\ si.BidPrice <= 3 * si.AskPrice

\* Mutants of the check: equal prices let through; the check dropped.
PlanRejected_Strict(buy, sell) == sell < buy
PlanRejected_Never(buy, sell) == FALSE

\* "Check if narrowed prices are too close or equal"
PlanRejected(buy, sell) == sell <= buy

\* Mutant: untradeable mode ignored.
SentPrice_Plain(price, isBuy, untr) == price * 10

\* PlaceLimitOrder's price as sent, in tenths of a tick: untradeable mode sends
\* buy * 0.1 and sell * 10.
SentPrice(price, isBuy, untr) ==
  IF untr THEN (IF isBuy THEN price ELSE price * 100) ELSE price * 10

\* ------------------------------------------------------------ the exchange

Statuses == {"pending", "open", "partial", "closed", "canceled", "rejected", "expired"}
Live == {"pending", "open", "partial"}

\* The status changes the exchange makes on its own.
StatusSteps ==
  {<<"pending", "open">>, <<"pending", "rejected">>,
   <<"open", "partial">>, <<"open", "closed">>, <<"open", "canceled">>,
   <<"open", "expired">>, <<"partial", "closed">>, <<"partial", "canceled">>}

Ids == DOMAIN orders
LiveIds == {id \in Ids : orders[id].status \in Live}
NewOrder(type, by) == [type |-> type, status |-> "pending", by |-> by]
CanFault == faults < MaxFaults
CanAccept == Len(orders) < MaxOrders

ExchangeEmpty ==
  /\ orders = <<>>
  /\ faults = 0
  /\ returnedIds = {}
  /\ editsSent = [sell |-> 0, buy |-> 0]
  /\ editsOk = [sell |-> 0, buy |-> 0]
  /\ lost = {}
  /\ retired = {} /\ stale = {}

NoSnapshot == [BidPrice |-> 0, AskPrice |-> 0]
NoRequest == [leg |-> "", price |-> 0, volume |-> 0]
NoCancelRun == [pc |-> "idle", seen |-> {}, todo |-> {}, asked |-> <<>>, result |-> ""]

AuxIdle ==
  /\ rpc = "idle" /\ closedLeg = ""
  /\ descrPrice = 0 /\ execPrice = 0
  /\ editRequest = NoRequest
  /\ clock = 0 /\ nonces = <<>>
  /\ gateInfo = NoSnapshot
  /\ cancelRun = NoCancelRun

SupIdle ==
  /\ lpc = "none" /\ i = 0
  /\ canceled = FALSE /\ mu = "free"
  /\ wdpc = "none" /\ ctxDone = FALSE
  /\ attempt = 0 /\ report = <<>> /\ supExit = -1
  /\ currentPrice = 0 /\ available = 0 /\ exitRequests = <<>>
  /\ openOrders = "unread"

NoConfig == [coin |-> "", volume |-> 0, apiKey |-> "", apiSecret |-> ""]

TraderIdle ==
  /\ pc = "idle"
  /\ orderFlag = FALSE /\ editOrder = FALSE
  /\ placedBuyId = NoId /\ buyTxId = NoId /\ sellTxId = NoId
  /\ sellOrderEdited = FALSE /\ buyOrderEdited = FALSE
  /\ buyOrder = "" /\ sellOrder = ""
  /\ decision = "none"
  /\ notified = 0
  /\ traderExit = -1
  /\ placeErr = ""
  /\ config = NoConfig
  /\ setupErr = "" /\ sent = {}

Exch_Change ==
  /\ \E id \in Ids, st \in Statuses :
       /\ <<orders[id].status, st>> \in StatusSteps
       /\ orders' = [orders EXCEPT ![id].status = st]
  /\ UNCHANGED <<faults, traderVars, histVars, planVars, supVars, reqVars, auxVars, wdVars>>

\* ------------------------------------------------ the narrowing trader

InitPlan ==
  /\ npc = "plan"
  /\ spreadInfo \in Snapshots
  /\ volume \in Volumes
  /\ spreadNarrowFactor \in Factors
  /\ untradeable \in BOOLEAN
  /\ newBuyPrice = 0 /\ newSellPrice = 0
  /\ estimatedProfit = 0
  /\ estimatedPercentGain = [num |-> 0, den |-> 1]
  /\ placed = <<>>
  /\ slack = <<>>
  /\ err = ""
  /\ exitCode = -1
  /\ TraderIdle /\ ExchangeEmpty /\ SupIdle /\ AuxIdle

\* PlaceSpreadOrders up to its check of the narrowed prices.
Narrow_Plan ==
  /\ UNCHANGED <<traderVars, exchVars, histVars, supVars, reqVars, auxVars, wdVars>>
  /\ npc = "plan"
  /\ \E tieBuy, tieSell \in BOOLEAN :
       /\ SameFloat(spreadInfo, spreadNarrowFactor) => tieBuy = tieSell
       /\ newBuyPrice' = NarrowedBuy(spreadInfo, spreadNarrowFactor, tieBuy)
       /\ newSellPrice' = NarrowedSell(spreadInfo, spreadNarrowFactor, tieSell)
  /\ IF PlanRejected(newBuyPrice', newSellPrice')
       THEN /\ npc' = "reject"
            /\ UNCHANGED <<estimatedProfit, estimatedPercentGain>>
       ELSE /\ npc' = "placeBuy"
            /\ estimatedProfit' = (newSellPrice' - newBuyPrice') * volume
            /\ estimatedPercentGain' =
                 [num |-> (newSellPrice' - newBuyPrice') * 100, den |-> newBuyPrice']
  /\ UNCHANGED <<spreadInfo, volume, spreadNarrowFactor, untradeable, placed, slack,
                 err, exitCode>>

\* Mutant: a failed Slack send ends the run.
AfterSlack_FailStops(next, ok) == IF ok THEN next ELSE "failed"

\* Where PlaceSpreadOrders goes on after SendSlackMessage: slackErr is only
\* printed as a warning.
AfterSlack(next, ok) == next

\* The rejection: a Slack message (which may fail), the error returned, and
\* main's os.Exit(1).
Narrow_Reject ==
  /\ UNCHANGED <<traderVars, exchVars, histVars, supVars, reqVars, auxVars, wdVars>>
  /\ npc = "reject"
  /\ \E ok \in BOOLEAN :
       /\ slack' = Append(slack, [msg |-> "cancelled", ok |-> ok])
       /\ npc' = AfterSlack("exited", ok)
  /\ err' = "narrowed prices are too close or equal"
  /\ exitCode' = 1
  /\ UNCHANGED <<spreadInfo, volume, spreadNarrowFactor, untradeable, newBuyPrice,
                 newSellPrice, estimatedProfit, estimatedPercentGain, placed>>

\* PlaceLimitOrder for the buy leg; an error returns from PlaceSpreadOrders
\* and main exits 1.
Narrow_PlaceBuy ==
  /\ UNCHANGED <<traderVars, exchVars, histVars, supVars, reqVars, auxVars, wdVars>>
  /\ npc = "placeBuy"
  /\ placed' = Append(placed, [type |-> "buy",
                               price |-> SentPrice(newBuyPrice, TRUE, untradeable)])
  /\ \E ok \in BOOLEAN :
       IF ok THEN npc' = "placeSell" /\ UNCHANGED <<err, exitCode>>
             ELSE /\ npc' = "exited"
                  /\ err' = "error placing buy order"
                  /\ exitCode' = 1
  /\ UNCHANGED <<spreadInfo, volume, spreadNarrowFactor, untradeable, newBuyPrice,
                 newSellPrice, estimatedProfit, estimatedPercentGain, slack>>

Narrow_PlaceSell ==
  /\ UNCHANGED <<traderVars, exchVars, histVars, supVars, reqVars, auxVars, wdVars>>
  /\ npc = "placeSell"
  /\ placed' = Append(placed, [type |-> "sell",
                               price |-> SentPrice(newSellPrice, FALSE, untradeable)])
  /\ \E ok \in BOOLEAN :
       IF ok THEN npc' = "notify" /\ UNCHANGED <<err, exitCode>>
             ELSE /\ npc' = "exited"
                  /\ err' = "error placing sell order"
                  /\ exitCode' = 1
  /\ UNCHANGED <<spreadInfo, volume, spreadNarrowFactor, untradeable, newBuyPrice,
                 newSellPrice, estimatedProfit, estimatedPercentGain, slack>>

\* Both legs placed: the Slack message, then the ids and estimates returned.
Narrow_Notify ==
  /\ UNCHANGED <<traderVars, exchVars, histVars, supVars, reqVars, auxVars, wdVars>>
  /\ npc = "notify"
  /\ \E ok \in BOOLEAN :
       /\ slack' = Append(slack, [msg |-> "placing", ok |-> ok])
       /\ npc' = AfterSlack("polling", ok)
  /\ UNCHANGED <<spreadInfo, volume, spreadNarrowFactor, untradeable, newBuyPrice,
                 newSellPrice, estimatedProfit, estimatedPercentGain, placed, err,
                 exitCode>>

NextPlan ==
  \/ Narrow_Plan
  \/ Narrow_Reject
  \/ Narrow_PlaceBuy
  \/ Narrow_PlaceSell
  \/ Narrow_Notify

SpecPlan == InitPlan /\ [][NextPlan]_vars

\* ------------------------------------------------------------- the trader
\* cmd/trader/main.go, with PlaceSpreadOrders / PlaceLimitOrder /
\* CheckOrderStatus of internal/kraken and EditOrder.  One action per request
\* to the exchange: the exchange may change an order between two requests.

Legs == {"sell", "buy"}

\* Mutants: the one-shot flag not consulted; a pair decided on one leg only;
\* the new id not taken over.
EditSellCond_NoFlag(b, s, edited, flag) == b = "closed" /\ s = "open" /\ flag
TerminalDecision_Either(b, s) ==
  IF b = "closed" \/ s = "closed" THEN "Filled"
  ELSE IF b = "canceled" \/ s = "canceled" THEN "Canceled"
  ELSE "continue"
IdAfterEdit_Kept(old, new) == old
\* Mutant: the buy leg is edited while it is live in any way.
EditBuyCond_AnyLive(b, s, edited, flag) == s = "closed" /\ b \in Live /\ ~edited /\ flag

\* Mutant: the buy leg is edited while open, whatever the sell leg is.
EditBuyCond_AnySell(b, s, edited, flag) == b = "open" /\ s # "" /\ ~edited /\ flag

\* main.go:240 and main.go:263
EditSellCond(b, s, edited, flag) == b = "closed" /\ s = "open" /\ ~edited /\ flag
EditBuyCond(b, s, edited, flag) == s = "closed" /\ b = "open" /\ ~edited /\ flag

\* main.go:286 and main.go:349
TerminalDecision(b, s) ==
  IF b = "closed" /\ s = "closed" THEN "Filled"
  ELSE IF b = "canceled" /\ s = "canceled" THEN "Canceled"
  ELSE "continue"

\* sellTxId = newSellTxId, buyTxId = newBuyTxId
IdAfterEdit(old, new) == new

Exit(code) == pc' = "exited" /\ traderExit' = code

\* The end of a poll cycle: the two terminal checks on the statuses read.
Terminal(b, s) ==
  /\ decision' = TerminalDecision(b, s)
  /\ CASE decision' = "Filled" -> pc' = "filled" /\ UNCHANGED traderExit
       [] decision' = "Canceled" -> Exit(0)
       [] OTHER -> pc' = "pollBuy" /\ UNCHANGED traderExit

\* Mutants: a failed edit, a failed status read, ends the poll loop.
Continue_Abort == pc' = "exited" /\ decision' = "continue" /\ traderExit' = 1
ReadError_Abort == CanFault /\ faults' = faults + 1 /\ pc' = "exited"

\* "continue": the rest of the cycle is skipped.
Continue == pc' = "pollBuy" /\ decision' = "continue" /\ UNCHANGED traderExit

Fault == CanFault /\ faults' = faults + 1

\* A status or edit request for id goes out.
Asked(id) == stale' = IF id \in retired THEN stale \cup {id} ELSE stale

\* CheckOrderStatus returned an error: it is printed, then "continue".
ReadError == Fault /\ pc' = "pollBuy"

\* The coins of KrakenAssetCode's table (one stands for all) and a coin that
\* is not in it; a private key is missing, not base64, or usable.
KnownCoins == {"BTC"}
Coins == {"", "BTC", "DOGE"}
Secrets == {"", "malformed", "set"}
Configs == [coin : Coins, volume : {0, 1}, apiKey : {"", "set"}, apiSecret : Secrets]
GoodConfig == [coin |-> "BTC", volume |-> 1, apiKey |-> "set", apiSecret |-> "set"]

\* Mutant: the credentials are not looked at.
ConfigError_NoCredentials(c) ==
  IF c.coin = "" \/ c.volume = 0 THEN "flags"
  ELSE IF c.coin \notin KnownCoins THEN "asset code"
  ELSE ""

\* main.go:66-102: the flags, KrakenAssetCode (a table lookup), the two
\* environment variables.  "" when the configuration passes.
ConfigError(c) ==
  IF c.coin = "" \/ c.volume = 0 THEN "flags"
  ELSE IF c.coin \notin KnownCoins THEN "asset code"
  ELSE IF c.apiKey = "" \/ c.apiSecret = "" THEN "credentials"
  ELSE ""

\* Mutant: orders are placed whatever -order says.
Places_Always(flag) == TRUE

\* if *orderFlag { ... } else { "Skipping order placement." }
Places(flag) == flag

SetupFails(why) == Exit(1) /\ setupErr' = why

\* What the two balance checks of main.go:137-165 find in the balance read.
BalanceChecks == {"base balance", "insufficient base", "USD balance", "insufficient USD", ""}

\* The checks before any request.
T_Setup ==
  /\ pc = "setup"
  /\ IF ConfigError(config) # ""
       THEN SetupFails(ConfigError(config))
       ELSE pc' = "balance" /\ UNCHANGED <<traderExit, setupErr>>
  /\ UNCHANGED <<orderFlag, editOrder, placedBuyId, buyTxId, sellTxId, sellOrderEdited,
                 buyOrderEdited, buyOrder, sellOrder, decision, notified, placeErr,
                 config, sent>>
  /\ UNCHANGED <<exchVars, histVars, planVars, supVars, reqVars, auxVars, wdVars>>

\* The BalanceEx request: the signature (a private key that is not base64
\* fails here, before the request), then the request itself.
T_Balance ==
  /\ pc = "balance"
  /\ IF config.apiSecret = "malformed"
       THEN SetupFails("signature") /\ UNCHANGED <<sent, faults>>
       ELSE /\ sent' = sent \cup {"balance"}
            /\ \/ Fault /\ SetupFails("request")
               \/ pc' = "market" /\ UNCHANGED <<traderExit, setupErr, faults>>
  /\ UNCHANGED <<orderFlag, editOrder, placedBuyId, buyTxId, sellTxId, sellOrderEdited,
                 buyOrderEdited, buyOrder, sellOrder, decision, notified, placeErr,
                 config>>
  /\ UNCHANGED <<orders, histVars, planVars, supVars, reqVars, auxVars, wdVars>>

\* The ticker (a failure exits 1), the OHLC data (a failure is only printed),
\* the two balance checks; then without -order main falls off its end.
T_Market ==
  /\ pc = "market"
  /\ \/ /\ Fault /\ SetupFails("ticker")
        /\ sent' = sent \cup {"ticker"}
     \/ /\ sent' = sent \cup {"ticker", "ohlc"}
        /\ UNCHANGED faults \/ Fault
        /\ \E found \in BalanceChecks :
             IF found # "" THEN SetupFails(found)
             ELSE IF Places(orderFlag) THEN pc' = "gate" /\ UNCHANGED <<traderExit, setupErr>>
             ELSE Exit(0) /\ UNCHANGED setupErr
  /\ UNCHANGED <<orderFlag, editOrder, placedBuyId, buyTxId, sellTxId, sellOrderEdited,
                 buyOrderEdited, buyOrder, sellOrder, decision, notified, placeErr,
                 config>>
  /\ UNCHANGED <<orders, histVars, planVars, supVars, reqVars, auxVars, wdVars>>

\* The spread/volume gate: a failed ticker or volume request exits 1; outside
\* the boundaries the trader sleeps and asks again; inside it goes on to place.
T_Gate ==
  /\ pc = "gate"
  /\ \/ /\ Fault /\ SetupFails("gate")
        /\ \E asked \in {{"ticker"}, {"ticker", "volume24h"}} : sent' = sent \cup asked
     \/ /\ sent' = sent \cup {"ticker", "volume24h"}
        /\ pc' \in {"gate", "placeBuy"}
        /\ UNCHANGED <<traderExit, faults, setupErr>>
  /\ UNCHANGED <<orderFlag, editOrder, placedBuyId, buyTxId, sellTxId, sellOrderEdited,
                 buyOrderEdited, buyOrder, sellOrder, decision, notified, placeErr,
                 config>>
  /\ UNCHANGED <<orders, histVars, planVars, supVars, reqVars, auxVars, wdVars>>

\* Mutants: one message for both legs; a rollback of the buy leg.
SellLegError_AsBuy == "error placing buy order"
AfterSellFailure_Rollback(o, buyId) == [o EXCEPT ![buyId].status = "canceled"]

\* The errors PlaceSpreadOrders wraps a failed leg in.
BuyLegError == "error placing buy order"
SellLegError == "error placing sell order"

\* The exchange's orders when the sell leg has failed: PlaceSpreadOrders
\* returns at once, the buy order is left as it is.
AfterSellFailure(o, buyId) == o

\* PlaceSpreadOrders, buy leg.  The request fails before the exchange, or the
\* exchange creates the order and the response arrives or is lost.
T_PlaceBuy ==
  /\ pc = "placeBuy"
  /\ \/ /\ Fault /\ Exit(1)
        /\ placeErr' = BuyLegError
        /\ UNCHANGED <<orders, placedBuyId, lost>>
     \/ /\ CanAccept
        /\ orders' = Append(orders, NewOrder("buy", "trader"))
        /\ \/ /\ placedBuyId' = Len(orders')
              /\ pc' = "placeSell"
              /\ UNCHANGED <<traderExit, faults, placeErr, lost>>
           \/ /\ Fault /\ Exit(1)
              /\ placeErr' = BuyLegError
              /\ lost' = lost \cup {Len(orders')}
              /\ UNCHANGED placedBuyId
  /\ sent' = sent \cup {"place"}
  /\ UNCHANGED <<orderFlag, editOrder, buyTxId, sellTxId, sellOrderEdited,
                 buyOrderEdited, buyOrder, sellOrder, decision, notified, config, setupErr>>
  /\ UNCHANGED <<returnedIds, editsSent, editsOk, planVars, supVars, reqVars, auxVars, wdVars>>

\* PlaceSpreadOrders, sell leg: on an error it returns "", "" and main exits 1;
\* otherwise main holds both ids.
T_PlaceSell ==
  /\ pc = "placeSell"
  /\ placedBuyId' = NoId
  /\ \/ /\ Fault /\ Exit(1)
        /\ placeErr' = SellLegError
        /\ orders' = AfterSellFailure(orders, placedBuyId)
        /\ UNCHANGED <<buyTxId, sellTxId, returnedIds, lost>>
     \/ /\ CanAccept
        /\ orders' = Append(orders, NewOrder("sell", "trader"))
        /\ \/ /\ buyTxId' = placedBuyId
              /\ sellTxId' = Len(orders')
              /\ returnedIds' = returnedIds \cup {placedBuyId, Len(orders')}
              /\ pc' = "pollBuy"
              /\ UNCHANGED <<traderExit, faults, placeErr, lost>>
           \/ /\ Fault /\ Exit(1)
              /\ placeErr' = SellLegError
              /\ lost' = lost \cup {Len(orders')}
              /\ UNCHANGED <<buyTxId, sellTxId, returnedIds>>
  /\ sent' = sent \cup {"place"}
  /\ UNCHANGED <<orderFlag, editOrder, sellOrderEdited, buyOrderEdited, buyOrder,
                 sellOrder, decision, notified, config, setupErr>>
  /\ UNCHANGED <<editsSent, editsOk, planVars, supVars, reqVars, auxVars, wdVars>>

\* A poll cycle starts: the sleep, then CheckOrderStatus(buyTxId).
T_PollBuy ==
  /\ pc = "pollBuy"
  /\ sellOrder' = ""
  /\ decision' = "none"
  /\ \/ ReadError /\ buyOrder' = ""
     \/ buyOrder' = orders[buyTxId].status /\ pc' = "pollSell" /\ UNCHANGED faults
  /\ sent' = sent \cup {"status"}
  /\ UNCHANGED <<orderFlag, editOrder, placedBuyId, buyTxId, sellTxId, sellOrderEdited,
                 buyOrderEdited, notified, placeErr, traderExit, config, setupErr>>
  /\ UNCHANGED <<orders, histVars, planVars, supVars, auxVars, wdVars>>
  /\ Asked(buyTxId)
  /\ UNCHANGED retired

\* CheckOrderStatus(sellTxId), then the branch the two statuses select: an
\* edit of the open leg, or the terminal checks.
T_PollSell ==
  /\ pc = "pollSell"
  /\ \/ ReadError /\ UNCHANGED <<sellOrder, decision, traderExit>>
     \/ /\ sellOrder' = orders[sellTxId].status
        /\ UNCHANGED faults
        /\ IF EditSellCond(buyOrder, sellOrder', sellOrderEdited, editOrder)
             THEN pc' = "editSellCheck" /\ UNCHANGED <<decision, traderExit>>
           ELSE IF EditBuyCond(buyOrder, sellOrder', buyOrderEdited, editOrder)
             THEN pc' = "editBuyCheck" /\ UNCHANGED <<decision, traderExit>>
           ELSE Terminal(buyOrder, sellOrder')
  /\ sent' = sent \cup {"status"}
  /\ UNCHANGED <<orderFlag, editOrder, placedBuyId, buyTxId, sellTxId, sellOrderEdited,
                 buyOrderEdited, buyOrder, notified, placeErr, config, setupErr>>
  /\ UNCHANGED <<orders, histVars, planVars, supVars, auxVars, wdVars>>
  /\ Asked(sellTxId)
  /\ UNCHANGED retired

CheckPc(leg) == IF leg = "sell" THEN "editSellCheck" ELSE "editBuyCheck"
SendPc(leg) == IF leg = "sell" THEN "editSellSend" ELSE "editBuySend"
LegId(leg) == IF leg = "sell" THEN sellTxId ELSE buyTxId

\* The new price is parsed from the closed leg, then EditOrder reads the
\* order's details with CheckOrderStatus; a failure of either ends the cycle.
T_EditCheck(leg) ==
  /\ pc = CheckPc(leg)
  /\ \/ Fault /\ Continue
     \/ pc' = SendPc(leg) /\ UNCHANGED <<faults, decision, traderExit>>
  /\ sent' = sent \cup {"status"}
  /\ UNCHANGED <<orderFlag, editOrder, placedBuyId, buyTxId, sellTxId, sellOrderEdited,
                 buyOrderEdited, buyOrder, sellOrder, notified, placeErr, config, setupErr>>
  /\ UNCHANGED <<orders, histVars, planVars, supVars, auxVars, wdVars>>
  /\ Asked(LegId(leg))
  /\ UNCHANGED retired

\* What main does with the id EditOrder returned, and the rest of the cycle.
EditDone(leg, new) ==
  /\ IF leg = "sell"
       THEN /\ sellTxId' = IdAfterEdit(sellTxId, new)
            /\ sellOrderEdited' = TRUE
            /\ UNCHANGED <<buyTxId, buyOrderEdited>>
       ELSE /\ buyTxId' = IdAfterEdit(buyTxId, new)
            /\ buyOrderEdited' = TRUE
            /\ UNCHANGED <<sellTxId, sellOrderEdited>>
  /\ editsOk' = [editsOk EXCEPT ![leg] = @ + 1]
  /\ returnedIds' = returnedIds \cup {new}
  /\ retired' = retired \cup {LegId(leg)}
  /\ UNCHANGED lost
  /\ Terminal(buyOrder, sellOrder)

EditFailed ==
  /\ Continue
  /\ UNCHANGED <<buyTxId, sellTxId, sellOrderEdited, buyOrderEdited, editsOk, returnedIds,
                 retired>>

\* EditOrder's request.  It fails before the exchange; or the exchange refuses
\* it (the order is no longer open); or the exchange retires the old id and
\* opens a new one, and the response arrives or is lost.
T_EditSend(leg) ==
  /\ pc = SendPc(leg)
  /\ editsSent' = [editsSent EXCEPT ![leg] = @ + 1]
  /\ \/ Fault /\ EditFailed /\ UNCHANGED <<orders, lost>>
     \/ /\ orders[LegId(leg)].status # "open"
        /\ EditFailed /\ UNCHANGED <<orders, faults, lost>>
     \/ /\ orders[LegId(leg)].status = "open"
        /\ CanAccept
        /\ orders' = Append([orders EXCEPT ![LegId(leg)].status = "canceled"],
                            NewOrder(leg, "trader"))
        /\ \/ EditDone(leg, Len(orders')) /\ UNCHANGED faults
           \/ Fault /\ EditFailed /\ lost' = lost \cup {Len(orders')}
  /\ sent' = sent \cup {"edit"}
  /\ UNCHANGED <<orderFlag, editOrder, placedBuyId, buyOrder, sellOrder, notified, placeErr,
                 config, setupErr>>
  /\ UNCHANGED <<planVars, supVars, auxVars, wdVars>>
  /\ Asked(LegId(leg))

\* Both legs closed: the ticker is read and its result dereferenced, so a
\* failed ticker request is a nil dereference (the runtime exits 2); otherwise
\* the Slack message is attempted and main exits 0.
T_Filled ==
  /\ pc = "filled"
  /\ \/ /\ Fault /\ Exit(2) /\ UNCHANGED notified
        /\ sent' = sent \cup {"ticker"}
     \/ /\ notified' = notified + 1 /\ Exit(0) /\ UNCHANGED faults
        /\ sent' = sent \cup {"ticker", "volume24h"}
  /\ UNCHANGED <<orderFlag, editOrder, placedBuyId, buyTxId, sellTxId, sellOrderEdited,
                 buyOrderEdited, buyOrder, sellOrder, decision, placeErr, config, setupErr>>
  /\ UNCHANGED <<orders, histVars, planVars, supVars, reqVars, auxVars, wdVars>>

PlanIdle ==
  /\ npc = "idle"
  /\ spreadInfo = [BidPrice |-> 0, AskPrice |-> 0]
  /\ volume = 0
  /\ spreadNarrowFactor = 0
  /\ untradeable = FALSE
  /\ newBuyPrice = 0 /\ newSellPrice = 0
  /\ estimatedProfit = 0
  /\ estimatedPercentGain = [num |-> 0, den |-> 1]
  /\ placed = <<>>
  /\ slack = <<>>
  /\ err = ""
  /\ exitCode = -1

\* Single-shot mode: one trader and the exchange.
Init ==
  /\ PlanIdle
  /\ ExchangeEmpty
  /\ SupIdle
  /\ AuxIdle
  /\ pc = "setup"
  /\ orderFlag \in BOOLEAN /\ editOrder \in BOOLEAN
  /\ placedBuyId = NoId /\ buyTxId = NoId /\ sellTxId = NoId
  /\ sellOrderEdited = FALSE /\ buyOrderEdited = FALSE
  /\ buyOrder = "" /\ sellOrder = ""
  /\ decision = "none"
  /\ notified = 0
  /\ traderExit = -1
  /\ placeErr = ""
  /\ config \in Configs
  /\ setupErr = "" /\ sent = {}

TraderNext ==
  \/ T_Setup
  \/ T_Balance
  \/ T_Market
  \/ T_Gate
  \/ T_PlaceBuy
  \/ T_PlaceSell
  \/ T_PollBuy
  \/ T_PollSell
  \/ \E leg \in Legs : T_EditCheck(leg)
  \/ \E leg \in Legs : T_EditSend(leg)
  \/ T_Filled

Next == TraderNext \/ Exch_Change

Spec == Init /\ [][Next]_vars

\* The trader as a running process: main takes its next step when it can
\* (every wait in it is a time.Sleep).  The exchange owes no status change.
TraderFairness ==
  /\ WF_vars(T_Setup) /\ WF_vars(T_Balance) /\ WF_vars(T_Market) /\ WF_vars(T_Gate)
  /\ WF_vars(T_PlaceBuy) /\ WF_vars(T_PlaceSell)
  /\ WF_vars(T_PollBuy) /\ WF_vars(T_PollSell)
  /\ WF_vars(\E leg \in Legs : T_EditCheck(leg))
  /\ WF_vars(\E leg \in Legs : T_EditSend(leg))
  /\ WF_vars(T_Filled)

SpecFair == Spec /\ TraderFairness

\* ------------------------------------------------ the supervised loop
\* unnamed/part_004: main launches one trader per iteration with
\* "go run ... -coin C -order -volume V" and waits for it; monitorPrice runs
\* beside it as a goroutine of the same process.

TraderUntouched == UNCHANGED <<traderVars, histVars, reqVars, auxVars, wdVars>>

\* The process ends: its goroutine ends with it.
SupExits(code) ==
  /\ lpc' = "exited"
  /\ supExit' = code
  /\ wdpc' = IF wdpc \in {"none", "done"} THEN wdpc ELSE "killed"

\* Flag check and report file, then the watchdog is started.
L_Start ==
  /\ lpc = "start"
  /\ \/ SupExits(1) /\ UNCHANGED i
     \/ /\ lpc' = "lock" /\ i' = 1
        /\ wdpc' = "tick"
        /\ UNCHANGED supExit
  /\ UNCHANGED <<canceled, mu, ctxDone, attempt, report>>
  /\ UNCHANGED <<exchVars, planVars>>
  /\ TraderUntouched

\* Mutant: a Lock() that does not wait.
Unlocked_NoWait(m) == TRUE

\* mu.Lock() returns once nobody holds the mutex.
Unlocked(m) == m = "free"

\* The loop head: past the last iteration main returns (defer cancel());
\* otherwise mu.Lock().
L_Lock ==
  /\ lpc = "lock"
  /\ IF i > MaxIterations
       THEN SupExits(0) /\ ctxDone' = TRUE /\ UNCHANGED mu
       ELSE /\ Unlocked(mu)
            /\ mu' = "main"
            /\ lpc' = "check"
            /\ UNCHANGED <<supExit, wdpc, ctxDone>>
  /\ UNCHANGED <<i, canceled, attempt, report>>
  /\ UNCHANGED <<exchVars, planVars>>
  /\ TraderUntouched

\* Mutant: the first iteration starts without looking at the flag.
AfterCheck_FirstUnchecked(c, n) == IF c /\ n > 1 THEN "wait" ELSE "launch"

\* Where the flag read at the head of iteration n leads.
AfterCheck(c, n) == IF c THEN "wait" ELSE "launch"

\* if canceled { mu.Unlock(); wg.Wait(); return }  mu.Unlock()
L_Check ==
  /\ lpc = "check"
  /\ mu' = "free"
  /\ lpc' = AfterCheck(canceled, i)
  /\ UNCHANGED <<i, canceled, wdpc, ctxDone, attempt, report, supExit>>
  /\ UNCHANGED <<exchVars, planVars>>
  /\ TraderUntouched

\* wg.Wait() returns when monitorPrice has returned; then main returns.
L_Wait ==
  /\ lpc = "wait"
  /\ wdpc = "done"
  /\ SupExits(0)
  /\ ctxDone' = TRUE
  /\ UNCHANGED <<i, canceled, mu, attempt, report>>
  /\ UNCHANGED <<exchVars, planVars>>
  /\ TraderUntouched

\* exec.Command(...).Run() starts a fresh trader process.
L_Launch ==
  /\ lpc = "launch"
  /\ lpc' = "running"
  /\ pc' = "setup"
  /\ orderFlag' = TRUE /\ editOrder' = FALSE
  /\ placedBuyId' = NoId /\ buyTxId' = NoId /\ sellTxId' = NoId
  /\ sellOrderEdited' = FALSE /\ buyOrderEdited' = FALSE
  /\ buyOrder' = "" /\ sellOrder' = ""
  /\ decision' = "none"
  /\ notified' = 0
  /\ traderExit' = -1
  /\ placeErr' = ""
  /\ config' = GoodConfig
  /\ setupErr' = "" /\ sent' = {}
  /\ returnedIds' = {}
  /\ UNCHANGED <<editsSent, editsOk, lost, reqVars, auxVars, wdVars>>
  /\ UNCHANGED <<i, canceled, mu, wdpc, ctxDone, attempt, report, supExit>>
  /\ UNCHANGED <<exchVars, planVars>>

\* Run() returns when the trader has exited: a non-zero exit is os.Exit(1),
\* otherwise the success line is written and the loop goes on.  (A write
\* that fails is only printed; S_Reap of the plain loop has that case.)
L_Reap ==
  /\ lpc = "running"
  /\ pc = "exited"
  /\ IF traderExit # 0
       THEN SupExits(1) /\ UNCHANGED <<i, report>>
       ELSE /\ report' = Append(report, [by |-> "main", line |-> "SUCCESSFUL TRADE", n |-> i])
            /\ i' = i + 1
            /\ lpc' = "lock"
            /\ UNCHANGED <<supExit, wdpc>>
  /\ UNCHANGED <<canceled, mu, ctxDone, attempt>>
  /\ UNCHANGED <<exchVars, planVars>>
  /\ TraderUntouched

WdUnchanged ==
  UNCHANGED <<lpc, i, report, supExit, planVars, traderVars, histVars, reqVars, auxVars>>

\* Mutant: a failure in the tick's body ends the watchdog like a success.
WdContinue_Signals ==
  wdpc' = "done" /\ ctxDone' = TRUE /\ openOrders' = openOrders /\ UNCHANGED attempt

\* An error in the tick's body is "continue": back to the select, the
\* tick's openOrders is gone.
WdContinue ==
  wdpc' = "tick" /\ openOrders' = "unread" /\ UNCHANGED <<ctxDone, attempt>>

\* len(openOrders) > 0, of the listing just read.
Listing(live) == IF live # {} THEN "open" ELSE "empty"

\* cancel(); return; and the deferred wg.Done().
WdReturn == wdpc' = "done" /\ ctxDone' = TRUE /\ UNCHANGED attempt

\* -limitprice, and the bids the ticker may show: below, at and above it.
LimitPrice == 105 * Unit
WatchPrices == {LimitPrice - Unit, LimitPrice, LimitPrice + Unit}

\* balance.Available as the exchange may report it: nothing, dust below the
\* order precision, and amounts with more and with no more than 5 decimals.
Balances == {0, 4, 1234567, 2 * (10 ^ 6)}

\* Mutant: a bid at the limit counts as a breach.
Breach_AtLimit(cur, limit) == cur >= limit

\* if currentPrice > limitPrice
Breach(cur, limit) == cur > limit

\* One tick: GetTickerInfo fails, or the bid is within the limit, or above it.
W_Tick ==
  /\ wdpc = "tick"
  /\ ~ctxDone
  /\ \/ Fault /\ UNCHANGED <<wdpc, currentPrice>>
     \/ /\ currentPrice' \in WatchPrices
        /\ wdpc' = IF Breach(currentPrice', LimitPrice) THEN "lock" ELSE "tick"
        /\ UNCHANGED faults
  /\ UNCHANGED <<canceled, mu, ctxDone, attempt, orders, available, openOrders, exitRequests>>
  /\ WdUnchanged

W_Lock ==
  /\ wdpc = "lock"
  /\ Unlocked(mu)
  /\ mu' = "wd"
  /\ wdpc' = "set"
  /\ UNCHANGED <<canceled, ctxDone, attempt, exchVars>>
  /\ UNCHANGED wdVars
  /\ WdUnchanged

\* *canceled = true; mu.Unlock()
W_Set ==
  /\ wdpc = "set"
  /\ canceled' = TRUE
  /\ mu' = "free"
  /\ wdpc' = "getOpen"
  /\ UNCHANGED <<ctxDone, attempt, exchVars>>
  /\ UNCHANGED wdVars
  /\ WdUnchanged

\* GetOpenOrders: with orders open the first CancelAllOrders follows.
W_GetOpen ==
  /\ wdpc = "getOpen"
  /\ \/ Fault /\ WdContinue
     \/ /\ UNCHANGED <<faults, ctxDone>>
        /\ openOrders' = Listing(LiveIds)
        /\ IF openOrders' = "open"
             THEN wdpc' = "cancelAll" /\ attempt' = 1
             ELSE wdpc' = "balance" /\ UNCHANGED attempt
  /\ UNCHANGED <<canceled, mu, orders>>
  /\ UNCHANGED <<currentPrice, available, exitRequests>>
  /\ WdUnchanged

\* The exchange after cancel requests for the orders S.
CancelOrders(S) ==
  [id \in Ids |-> IF id \in S THEN [orders[id] EXCEPT !.status = "canceled"]
                  ELSE orders[id]]

\* CancelAllOrders: a cancel request for every open order of the pair.  The
\* call fails having canceled only some of them; or every request is
\* accepted, and the exchange has carried out all of them or still has some
\* pending when the call returns.
W_CancelAll ==
  /\ wdpc = "cancelAll"
  /\ \/ /\ Fault /\ WdContinue
        /\ \E S \in SUBSET LiveIds : S # LiveIds /\ orders' = CancelOrders(S)
     \/ /\ \E S \in SUBSET LiveIds : orders' = CancelOrders(S)
        /\ wdpc' = "verify"
        /\ UNCHANGED <<faults, ctxDone, attempt, openOrders>>
  /\ UNCHANGED <<canceled, mu>>
  /\ UNCHANGED <<currentPrice, available, exitRequests>>
  /\ WdUnchanged

\* Mutant: after the second attempt the watchdog goes on whatever is open.
AfterVerify_Proceeds(open, att) ==
  IF ~open \/ att = 2 THEN "balance" ELSE "cancelAll"

\* Where the verification leads: open tells whether orders are still open,
\* att which attempt was verified.
AfterVerify(open, att) ==
  IF ~open THEN "balance"
  ELSE IF att = 1 THEN "cancelAll"
  ELSE "tick"

\* The GetOpenOrders that verifies: empty goes on to the balance, orders
\* still open get a second attempt, and after that the tick is given up.
W_Verify ==
  /\ wdpc = "verify"
  /\ \/ Fault /\ WdContinue
     \/ /\ UNCHANGED <<faults, ctxDone>>
        /\ wdpc' = AfterVerify(LiveIds # {}, attempt)
        /\ attempt' = IF wdpc' = "cancelAll" THEN 2 ELSE attempt
        /\ openOrders' = IF wdpc' = "tick" THEN "unread" ELSE Listing(LiveIds)
  /\ UNCHANGED <<canceled, mu, orders>>
  /\ UNCHANGED <<currentPrice, available, exitRequests>>
  /\ WdUnchanged

\* The balance request: it fails, or nothing is available, or there is a
\* balance to sell.
W_Balance ==
  /\ wdpc = "balance"
  /\ \/ Fault /\ WdContinue /\ UNCHANGED available
     \/ /\ available' \in Balances
        /\ UNCHANGED <<faults, openOrders>>
        /\ IF available' > 0
             THEN wdpc' = "exitOrder" /\ UNCHANGED <<ctxDone, attempt>>
             ELSE WdReturn
  /\ UNCHANGED <<canceled, mu, orders, currentPrice, exitRequests>>
  /\ WdUnchanged

\* sellPrice := currentPrice
ExitPrice(cur) == cur

\* PlaceLimitOrder's payload.  "price": %.8f prints a price of PriceScale
\* decimals in full while PriceScale <= 8 (the result is kept in ticks), and
\* rounds it to 8 decimals beyond.  "volume": "%.5f", in units of 10^-5 of the
\* coin, of an amount given in 10^-6: the nearest 5-decimal number, either one
\* at a tie.
FmtPrice8(p, tieUp) ==
  IF PriceScale <= 8 THEN p
  ELSE LET den == 10 ^ (PriceScale - 8)
           q == p \div den
           r2 == 2 * (p % den)
       IN (IF r2 > den \/ (r2 = den /\ tieUp) THEN q + 1 ELSE q) * den
FmtVolume5(amount, tieUp) ==
  LET q == amount \div 10
      r == amount % 10
  IN IF r > 5 \/ (r = 5 /\ tieUp) THEN q + 1 ELSE q

\* PlaceLimitOrder for the whole balance at the current bid; its error is
\* only printed, its success is logged to the report file main writes its
\* success lines to.
W_ExitOrder ==
  /\ wdpc = "exitOrder"
  /\ \E tieUp \in BOOLEAN :
       exitRequests' = Append(exitRequests,
         [type |-> "sell",
          price |-> FmtPrice8(ExitPrice(currentPrice), tieUp),
          volume |-> FmtVolume5(available, tieUp)])
  /\ \/ Fault /\ UNCHANGED <<orders, report>>
     \/ /\ CanAccept
        /\ orders' = Append(orders, NewOrder("sell", "watchdog"))
        /\ \/ /\ UNCHANGED faults
              /\ report' = Append(report, [by |-> "monitorPrice",
                                           line |-> "PRICE LIMIT EXCEEDED", n |-> 0])
           \/ Fault /\ UNCHANGED report
  /\ WdReturn
  /\ UNCHANGED <<canceled, mu, currentPrice, available, openOrders>>
  /\ UNCHANGED <<lpc, i, supExit, planVars, traderVars, histVars, reqVars, auxVars>>

InitSup ==
  /\ PlanIdle
  /\ ExchangeEmpty
  /\ TraderIdle
  /\ AuxIdle
  /\ lpc = "start" /\ i = 0
  /\ canceled = FALSE /\ mu = "free"
  /\ wdpc = "none" /\ ctxDone = FALSE
  /\ attempt = 0 /\ report = <<>> /\ supExit = -1
  /\ currentPrice = 0 /\ available = 0 /\ exitRequests = <<>>
  /\ openOrders = "unread"

NextSup ==
  \/ L_Start \/ L_Lock \/ L_Check \/ L_Wait \/ L_Launch \/ L_Reap
  \/ W_Tick \/ W_Lock \/ W_Set \/ W_GetOpen \/ W_CancelAll \/ W_Verify
  \/ W_Balance \/ W_ExitOrder
  \/ T_Setup \/ T_Balance \/ T_Market \/ T_Gate
  \/ T_PlaceBuy \/ T_PlaceSell \/ T_PollBuy \/ T_PollSell
  \/ T_Filled
  \/ Exch_Change

SpecSup == InitSup /\ [][NextSup]_vars

\* The supervised mode with its scheduling: main, the monitorPrice goroutine
\* (its ticker fires every 10 seconds) and the trader process each take their
\* next step when they can.  The exchange owes no status change, and which
\* bid a tick reads is left open.
SupFairness ==
  /\ WF_vars(L_Start) /\ WF_vars(L_Lock) /\ WF_vars(L_Check)
  /\ WF_vars(L_Wait) /\ WF_vars(L_Launch) /\ WF_vars(L_Reap)
  /\ WF_vars(W_Tick) /\ WF_vars(W_Lock) /\ WF_vars(W_Set) /\ WF_vars(W_GetOpen)
  /\ WF_vars(W_CancelAll) /\ WF_vars(W_Verify) /\ WF_vars(W_Balance)
  /\ WF_vars(W_ExitOrder)
  /\ WF_vars(T_Setup) /\ WF_vars(T_Balance) /\ WF_vars(T_Market) /\ WF_vars(T_Gate)
  /\ WF_vars(T_PlaceBuy) /\ WF_vars(T_PlaceSell) /\ WF_vars(T_PollBuy)
  /\ WF_vars(T_PollSell) /\ WF_vars(T_Filled)

SpecSupFair == SpecSup /\ SupFairness

\* ------------------------------------------------------ the plain loop
\* cmd/loop/main.go (and the for loop of loop.sh): the trader is run
\* `iterations` times in a row, without a watchdog.

\* Mutant: a failed run does not stop the loop.
RunFailed_Never(code) == FALSE

\* if err := cmd.Run(); err != nil
RunFailed(code) == code # 0

InitLoop ==
  /\ PlanIdle /\ ExchangeEmpty /\ TraderIdle /\ AuxIdle
  /\ lpc = "start" /\ i = 0
  /\ canceled = FALSE /\ mu = "free"
  /\ wdpc = "none" /\ ctxDone = FALSE
  /\ attempt = 0 /\ report = <<>> /\ supExit = -1
  /\ currentPrice = 0 /\ available = 0 /\ exitRequests = <<>>
  /\ openOrders = "unread"

LoopUntouched ==
  /\ UNCHANGED <<canceled, mu, wdpc, ctxDone, attempt>>
  /\ UNCHANGED <<exchVars, planVars>>
  /\ TraderUntouched

\* The flags, the report file, the trader's path: any of them failing is
\* os.Exit(1); then the loop is entered.
S_Start ==
  /\ lpc = "start"
  /\ \/ lpc' = "exited" /\ supExit' = 1 /\ UNCHANGED i
     \/ lpc' = "launch" /\ i' = 1 /\ UNCHANGED supExit
  /\ UNCHANGED report
  /\ LoopUntouched

\* cmd.Run() has returned.  An error is os.Exit(1).  Otherwise the success
\* line is written, or the write fails and is only printed; then the loop
\* ends after the last iteration or sleeps 5 minutes and goes on.
S_Reap ==
  /\ lpc = "running"
  /\ pc = "exited"
  /\ IF RunFailed(traderExit)
       THEN lpc' = "exited" /\ supExit' = 1 /\ UNCHANGED <<i, report>>
       ELSE /\ \/ report' = Append(report, [by |-> "main", line |-> "SUCCESSFUL TRADE", n |-> i])
               \/ UNCHANGED report
            /\ i' = i + 1
            /\ IF i' > MaxIterations
                 THEN lpc' = "exited" /\ supExit' = 0
                 ELSE lpc' = "launch" /\ UNCHANGED supExit
  /\ LoopUntouched

NextLoop ==
  \/ S_Start \/ L_Launch \/ S_Reap
  \/ T_Setup \/ T_Balance \/ T_Market \/ T_Gate
  \/ T_PlaceBuy \/ T_PlaceSell \/ T_PollBuy \/ T_PollSell
  \/ T_Filled
  \/ Exch_Change

SpecLoop == InitLoop /\ [][NextLoop]_vars

\* ------------------------------------------------------------ repricing
\* The new limit price of the edit branches of main.go (lines 240-283) and
\* the payload EditOrder sends (strconv.FormatFloat(price, 'f', 5, 64)).

OtherLeg(leg) == IF leg = "buy" THEN "sell" ELSE "buy"

\* price * (1 + profitPercent) opposite a closed buy, price * (1 - profitPercent)
\* opposite a closed sell: the numerator over 1000 ticks.
NewLimitNum(closed, price) ==
  IF closed = "buy" THEN price * (1000 + ProfitPerMille)
  ELSE price * (1000 - ProfitPerMille)

\* FormatFloat(x, 'f', 5, 64) of num/(1000 * Unit) USD, in units of 10^-5 USD:
\* the nearest 5-decimal number, and at an exact tie the one the float64
\* rounding error selects.
Fmt5(num, tieUp) ==
  IF PriceScale <= 2 THEN num * (10 ^ (2 - PriceScale))
  ELSE LET den == 10 ^ (PriceScale - 2)
           q == num \div den
           r2 == 2 * (num % den)
       IN IF r2 > den \/ (r2 = den /\ tieUp) THEN q + 1 ELSE q

\* The price main parses from the closed leg: ParseFloat(order.Descr.Price),
\* the price of the order's description, whatever it was executed at.
PriceBasis(limit, exec) == limit

RepricePrices == {99 * Unit + Unit \div 2, 100 * Unit, 101 * Unit} \cup SmallPrices

\* A closed limit order was executed at its limit price or better.
Executions(leg, limit) ==
  IF leg = "buy" THEN {x \in (limit - MaxSlip) .. limit : x > 0}
  ELSE limit .. (limit + MaxSlip)

InitReprice ==
  /\ TraderIdle /\ ExchangeEmpty /\ SupIdle
  /\ npc = "idle"
  /\ spreadInfo = [BidPrice |-> 0, AskPrice |-> 0]
  /\ volume \in Volumes
  /\ spreadNarrowFactor = 0
  /\ untradeable = FALSE
  /\ newBuyPrice = 0 /\ newSellPrice = 0
  /\ estimatedProfit = 0
  /\ estimatedPercentGain = [num |-> 0, den |-> 1]
  /\ placed = <<>> /\ slack = <<>>
  /\ err = "" /\ exitCode = -1
  /\ rpc = "read"
  /\ closedLeg \in Legs
  /\ descrPrice \in RepricePrices
  /\ execPrice \in Executions(closedLeg, descrPrice)
  /\ editRequest = NoRequest
  /\ clock = 0 /\ nonces = <<>>
  /\ gateInfo = NoSnapshot
  /\ cancelRun = NoCancelRun

\* The edit branch: the new price from the closed leg, then
\* EditOrder(openLegId, newPrice, *volume).
R_Edit ==
  /\ rpc = "read"
  /\ \E tieUp \in BOOLEAN :
       editRequest' =
         [leg |-> OtherLeg(closedLeg),
          price |-> Fmt5(NewLimitNum(closedLeg, PriceBasis(descrPrice, execPrice)), tieUp),
          volume |-> volume]
  /\ rpc' = "sent"
  /\ UNCHANGED <<closedLeg, descrPrice, execPrice, clock, nonces, gateInfo, cancelRun>>
  /\ UNCHANGED <<planVars, traderVars, exchVars, histVars, reqVars, supVars, wdVars>>

NextReprice == R_Edit

SpecReprice == InitReprice /\ [][NextReprice]_vars

\* ------------------------------------------------------------ placement
\* The prices of the pair in cmd/trader/main.go: the snapshot read for the
\* balance check (line 126), the gate (170-204), and PlaceSpreadOrders /
\* PlaceLimitOrder of internal/kraken.

\* minSpreadPercent = 1.0 and minVolume24h = 300000
MinSpreadPercent == 1
MinVolume24h == 300000

\* The books the ticker may show: spreads of 0.5 %, exactly 1 %, and about 2 %.
Books ==
  {[BidPrice |-> 100 * Unit, AskPrice |-> 100 * Unit + Unit \div 2],
   [BidPrice |-> 100 * Unit, AskPrice |-> 101 * Unit],
   [BidPrice |-> 100 * Unit, AskPrice |-> 102 * Unit],
   [BidPrice |-> 101 * Unit, AskPrice |-> 103 * Unit]}
Volumes24h == {MinVolume24h - 1, MinVolume24h}

\* spreadPercent < minSpreadPercent, for spreadPercent = (Spread / BidPrice) * 100
\* in float64: exact off the boundary; on it the rounding errors of the
\* subtraction and the division decide (tieBelow).
SpreadTooSmall(si, tieBelow) ==
  LET lhs == (si.AskPrice - si.BidPrice) * 100
      rhs == si.BidPrice * MinSpreadPercent
  IN  lhs < rhs \/ (lhs = rhs /\ tieBelow)

\* Mutant: the gate's snapshot handed on.
Handed_Fresh(outer, fresh) == fresh

\* The snapshot main.go:206 hands to PlaceSpreadOrders.  The gate declares
\* its own spreadInfo with := inside the for block (line 173); at line 206,
\* outside the block, spreadInfo is the variable of line 126.
Handed(outer, fresh) == outer

InitPlace ==
  /\ TraderIdle /\ ExchangeEmpty /\ SupIdle /\ AuxIdle
  /\ npc = "snapshot"
  /\ spreadInfo = NoSnapshot
  /\ volume \in Volumes
  /\ spreadNarrowFactor = 0
  /\ untradeable \in BOOLEAN
  /\ newBuyPrice = 0 /\ newSellPrice = 0
  /\ estimatedProfit = 0
  /\ estimatedPercentGain = [num |-> 0, den |-> 1]
  /\ placed = <<>> /\ slack = <<>>
  /\ err = "" /\ exitCode = -1

PlaceUntouched ==
  /\ UNCHANGED <<rpc, closedLeg, descrPrice, execPrice, editRequest, clock, nonces,
                 cancelRun>>
  /\ UNCHANGED <<traderVars, exchVars, histVars, reqVars, supVars, wdVars>>

\* spreadInfo, err := kraken.GetTickerInfo(*baseCoin), before the balance checks.
P_Snapshot ==
  /\ npc = "snapshot"
  /\ \/ /\ spreadInfo' \in Books
        /\ npc' = "gate"
        /\ UNCHANGED <<err, exitCode>>
     \/ /\ npc' = "exited" /\ exitCode' = 1
        /\ err' = "Error getting spread boundary"
        /\ UNCHANGED spreadInfo
  /\ UNCHANGED <<volume, spreadNarrowFactor, untradeable, newBuyPrice, newSellPrice,
                 estimatedProfit, estimatedPercentGain, placed, slack, gateInfo>>
  /\ PlaceUntouched

\* One iteration of the gate: a fresh snapshot and the 24h volume; outside
\* the boundaries the trader sleeps and asks again.
P_Gate ==
  /\ npc = "gate"
  /\ \/ /\ gateInfo' \in Books
        /\ \E volume24h \in Volumes24h, tieBelow \in BOOLEAN :
             npc' = IF SpreadTooSmall(gateInfo', tieBelow) \/ volume24h < MinVolume24h
                      THEN "gate" ELSE "place"
        /\ UNCHANGED <<err, exitCode>>
     \/ /\ npc' = "exited" /\ exitCode' = 1
        /\ err' = "Error getting spread boundary"
        /\ UNCHANGED gateInfo
  /\ UNCHANGED <<spreadInfo, volume, spreadNarrowFactor, untradeable, newBuyPrice,
                 newSellPrice, estimatedProfit, estimatedPercentGain, placed, slack>>
  /\ PlaceUntouched

\* PlaceSpreadOrders of internal/kraken: the estimates from the snapshot it
\* was handed, then the buy leg at its bid and the sell leg at its ask, each
\* through PlaceLimitOrder; a failed leg returns its error and main exits 1.
P_PlaceSpread ==
  /\ npc = "place"
  /\ LET si == Handed(spreadInfo, gateInfo)
         buy == [type |-> "buy", price |-> SentPrice(si.BidPrice, TRUE, untradeable)]
         sell == [type |-> "sell", price |-> SentPrice(si.AskPrice, FALSE, untradeable)]
     IN  /\ newBuyPrice' = si.BidPrice
         /\ newSellPrice' = si.AskPrice
         /\ \/ /\ placed' = <<buy>>
               /\ err' = BuyLegError
               /\ npc' = "exited" /\ exitCode' = 1
               /\ UNCHANGED <<estimatedProfit, estimatedPercentGain>>
            \/ /\ placed' = <<buy, sell>>
               /\ err' = SellLegError
               /\ npc' = "exited" /\ exitCode' = 1
               /\ UNCHANGED <<estimatedProfit, estimatedPercentGain>>
            \/ /\ placed' = <<buy, sell>>
               /\ estimatedProfit' = (si.AskPrice - si.BidPrice) * volume
               /\ estimatedPercentGain' =
                    [num |-> (si.AskPrice - si.BidPrice) * 100, den |-> si.BidPrice]
               /\ npc' = "polling"
               /\ UNCHANGED <<err, exitCode>>
  /\ UNCHANGED <<spreadInfo, volume, spreadNarrowFactor, untradeable, slack, gateInfo>>
  /\ PlaceUntouched

NextPlace == P_Snapshot \/ P_Gate \/ P_PlaceSpread

SpecPlace == InitPlace /\ [][NextPlace]_vars

\* --------------------------------------------------------------- nonces

\* The wall clock advances in steps of 1/TicksPerMs of a millisecond, up to
\* MaxClock steps; at most MaxRequests private requests are followed.
TicksPerMs == 2
MaxClock == 4
MaxRequests == 3

\* The processes signing with the one credential set of the environment.
Processes == {"trader", "watchdog"}

\* The request sites of each: the trader reads the balance, places the pair,
\* polls and edits; the watchdog lists and cancels the open orders, reads
\* the balance and places the exit order.
Sites(by) ==
  IF by = "trader" THEN {"balance", "place", "status", "edit"}
  ELSE {"open", "cancel", "balance", "place"}

\* nonce := time.Now().UnixNano() / int64(time.Millisecond), the same
\* expression at every site: the wall clock truncated to milliseconds.
Nonce(now) == now \div TicksPerMs

InitNonce ==
  /\ PlanIdle /\ TraderIdle /\ ExchangeEmpty /\ SupIdle /\ AuxIdle

\* Time passes.
N_ClockTick ==
  /\ clock < MaxClock
  /\ clock' = clock + 1
  /\ UNCHANGED <<rpc, closedLeg, descrPrice, execPrice, editRequest, nonces, gateInfo,
                 cancelRun>>
  /\ UNCHANGED <<planVars, traderVars, exchVars, histVars, reqVars, supVars, wdVars>>

\* A process builds the payload of a private request at one of its sites.
N_Request(by, site) ==
  /\ Len(nonces) < MaxRequests
  /\ nonces' = Append(nonces, [by |-> by, site |-> site, nonce |-> Nonce(clock)])
  /\ UNCHANGED <<rpc, closedLeg, descrPrice, execPrice, editRequest, clock, gateInfo,
                 cancelRun>>
  /\ UNCHANGED <<planVars, traderVars, exchVars, histVars, reqVars, supVars, wdVars>>

NextNonce ==
  \/ N_ClockTick
  \/ \E by \in Processes : \E site \in Sites(by) : N_Request(by, site)

SpecNonce == InitNonce /\ [][NextNonce]_vars

\* ------------------------------------------------------- cancellation
\* CancelOrder and CancelAllOrders of internal/kraken/orders.go, one call of
\* CancelAllOrders against an exchange whose orders change meanwhile.

MaxListed == 3

\* "count" of the exchange's answer to a cancel request for one order.
CancelCount(st) == IF st \in Live THEN 1 ELSE 0

\* Mutant: a count of 0 is taken for a success.
CancelOrderError_ZeroOk(count) == ""

\* if response.Result.Count == 0 { return fmt.Errorf("no orders were canceled") }
CancelOrderError(count) == IF count = 0 THEN "no orders were canceled" ELSE ""

InitCancel ==
  /\ PlanIdle /\ TraderIdle /\ SupIdle
  /\ \E n \in 0..MaxListed :
       orders \in [1..n -> [type : {"buy"}, status : {"open", "partial", "closed"},
                            by : {"trader"}]]
  /\ faults = 0
  /\ returnedIds = {}
  /\ editsSent = [sell |-> 0, buy |-> 0]
  /\ editsOk = [sell |-> 0, buy |-> 0]
  /\ lost = {}
  /\ retired = {} /\ stale = {}
  /\ rpc = "idle" /\ closedLeg = ""
  /\ descrPrice = 0 /\ execPrice = 0
  /\ editRequest = NoRequest
  /\ clock = 0 /\ nonces = <<>>
  /\ gateInfo = NoSnapshot
  /\ cancelRun = [NoCancelRun EXCEPT !.pc = "list"]

CancelUntouched ==
  /\ UNCHANGED <<rpc, closedLeg, descrPrice, execPrice, editRequest, clock, nonces, gateInfo>>
  /\ UNCHANGED <<planVars, traderVars, histVars, reqVars, supVars, wdVars>>

\* CancelAllOrders returns err.
CancelReturns(run, e) == [run EXCEPT !.pc = "returned", !.result = e]

\* GetOpenOrders(coin): an error is returned wrapped; an empty listing is nil.
CA_List ==
  /\ cancelRun.pc = "list"
  /\ \/ /\ Fault
        /\ cancelRun' = CancelReturns(cancelRun, "error getting open orders")
     \/ /\ UNCHANGED faults
        /\ cancelRun' =
             IF LiveIds = {}
               THEN CancelReturns(cancelRun, "nil")
               ELSE [cancelRun EXCEPT !.pc = "cancel", !.seen = LiveIds, !.todo = LiveIds]
  /\ UNCHANGED orders
  /\ CancelUntouched

\* CancelOrder(txId) has answered for id: with an error CancelAllOrders
\* returns it at once, otherwise the loop goes on and ends in nil.
CancelAnswered(id, count, e) ==
  LET run == [cancelRun EXCEPT !.asked = Append(@, [id |-> id, count |-> count, err |-> e]),
                               !.todo = @ \ {id}]
  IN  cancelRun' = IF e # "" THEN CancelReturns(run, "error canceling order")
                   ELSE IF run.todo = {} THEN CancelReturns(run, "nil")
                   ELSE run

\* One round of "for txId := range orders" (a map: any order): the request
\* fails, or is carried out and its answer lost, or the exchange refuses it,
\* or it answers with a count.
CA_Cancel ==
  /\ cancelRun.pc = "cancel"
  /\ \E id \in cancelRun.todo :
       \/ /\ Fault
          /\ \/ UNCHANGED orders
             \/ orders[id].status \in Live /\ orders' = CancelOrders({id})
          /\ CancelAnswered(id, -1, "error making request")
       \/ /\ orders[id].status \notin Live
          /\ UNCHANGED <<orders, faults>>
          /\ CancelAnswered(id, -1, "API error")
       \/ /\ LET count == CancelCount(orders[id].status)
             IN  /\ orders' = IF count > 0 THEN CancelOrders({id}) ELSE orders
                 /\ CancelAnswered(id, count, CancelOrderError(count))
          /\ UNCHANGED faults
  /\ CancelUntouched

NextCancel == CA_List \/ CA_Cancel \/ Exch_Change

SpecCancel == InitCancel /\ [][NextCancel]_vars

\* =================================================================== claims

Planned == npc # "plan"
PlacedBuys == {k \in 1 .. Len(placed) : placed[k].type = "buy"}
PlacedSells == {k \in 1 .. Len(placed) : placed[k].type = "sell"}

C8_RejectedPlanPlacesNothing ==
  (Planned /\ newSellPrice <= newBuyPrice)
    => /\ placed = <<>>
       /\ npc \in {"reject", "exited"}
       /\ npc = "exited" => (exitCode = 1 /\ err = "narrowed prices are too close or equal")

\* A rejected plan whose trader has exited.
C8_Witness ==
  /\ npc = "exited"
  /\ newSellPrice <= newBuyPrice
  /\ spreadInfo.AskPrice > spreadInfo.BidPrice
  /\ exitCode = 1
  /\ Len(slack) = 1
  /\ placed = <<>>

\* C9 (as claimed): with narrowing factor 0 and ask > bid the plan is accepted
\* with sell = ask and buy = bid up to half a rounding step, estimated profit
\* (ask - bid) * volume and estimated gain (ask - bid) / bid * 100.
C9_FactorZeroReproducesBook ==
  (/\ Planned
   /\ spreadNarrowFactor = 0
   /\ spreadInfo.AskPrice > spreadInfo.BidPrice)
    => LET step == 10 ^ (PriceScale - Decimals(spreadInfo.AskPrice))
           d == newBuyPrice - spreadInfo.BidPrice
       IN  /\ npc # "reject"
           /\ err # "narrowed prices are too close or equal"
           /\ newSellPrice = spreadInfo.AskPrice
           /\ 2 * d <= step /\ -2 * d <= step
           /\ estimatedProfit = (spreadInfo.AskPrice - spreadInfo.BidPrice) * volume
           /\ estimatedPercentGain.num * spreadInfo.BidPrice
                = (spreadInfo.AskPrice - spreadInfo.BidPrice) * 100 * estimatedPercentGain.den

\* C10 (as claimed): with narrowing factor 1, or above (clamped to 1), both
\* narrowed prices equal the center price before rounding, the plan is
\* rejected and no placement request is sent.
C10_FactorOneRejected ==
  (Planned /\ spreadNarrowFactor >= FDen)
    => /\ RawBuyNum(spreadInfo, ClampFactor(spreadNarrowFactor)) = CenterNum(spreadInfo)
       /\ RawSellNum(spreadInfo, ClampFactor(spreadNarrowFactor)) = CenterNum(spreadInfo)
       /\ npc \in {"reject", "exited"}
       /\ placed = <<>>

Edited(leg) == IF leg = "sell" THEN sellOrderEdited ELSE buyOrderEdited

\* C1: each one-shot flag goes from false to true at most once and never
\* back, a leg is edited successfully at most once, and once a leg's flag is
\* true no edit request is issued for it, whatever later cycles read.
C1_EditedOncePerLeg ==
  /\ [](\A leg \in Legs : editsOk[leg] <= 1 /\ (Edited(leg) <=> editsOk[leg] = 1))
  /\ [][\A leg \in Legs :
          /\ Edited(leg) => Edited(leg)'
          /\ Edited(leg) => editsSent'[leg] = editsSent[leg]
          /\ editsOk'[leg] # editsOk[leg] => ~Edited(leg) /\ Edited(leg)']_vars

\* The sell leg was edited, and a later cycle has again read the buy leg
\* closed while the replaced sell leg is open.
C1_Witness ==
  /\ sellOrderEdited /\ editsOk["sell"] = 1
  /\ pc = "pollSell" /\ buyOrder = "closed"
  /\ orders[sellTxId].status = "open"

\* C2: the statuses read in a cycle select exactly one outcome: Filled for
\* (closed, closed), Canceled for (canceled, canceled), continue otherwise.
C2_TerminalDecisionTable ==
  /\ \A b \in Statuses, s \in Statuses :
       TerminalDecision(b, s) =
         (CASE b = "closed" /\ s = "closed" -> "Filled"
            [] b = "canceled" /\ s = "canceled" -> "Canceled"
            [] OTHER -> "continue")
  /\ decision # "none" =>
       /\ decision \in {"continue", "Filled", "Canceled"}
       /\ decision = "Filled" <=> (buyOrder = "closed" /\ sellOrder = "closed")
       /\ decision = "Canceled" <=> (buyOrder = "canceled" /\ sellOrder = "canceled")
       /\ decision = "Filled" => pc = "filled" \/ (pc = "exited" /\ traderExit \in {0, 2})
       /\ decision = "Canceled" => pc = "exited" /\ traderExit = 0
       /\ decision = "continue" => pc = "pollBuy"

\* A mixed terminal pair keeps the trader polling.
C2_Witness ==
  /\ decision = "continue" /\ pc = "pollBuy"
  /\ buyOrder = "closed" /\ sellOrder = "canceled"

\* C6: every live order the trader created is held as its current buy or
\* sell id (or as the buy id inside PlaceSpreadOrders).
C6_NoOrphanOrder ==
  \A id \in LiveIds :
    orders[id].by = "trader" => id \in {buyTxId, sellTxId, placedBuyId}

\* C3: the canceled flag is never reset, and once it is set the loop launches
\* no further trader run.
C3_NoLaunchAfterCanceled ==
  [][/\ canceled => canceled'
     /\ canceled => ~(lpc = "launch" /\ lpc' = "running")]_vars

\* C4: the supervisor does not exit while the watchdog is between setting the
\* flag and finishing its cleanup.
C4_ExitAwaitsWatchdog ==
  (lpc = "exited" /\ canceled) => wdpc = "done"

\* C5: once the watchdog has completed, no order of the pair placed by a
\* trader run is open, and none is submitted from then on.
C5_NothingOpenAfterWatchdog ==
  wdpc = "done" => \A id \in LiveIds : orders[id].by # "trader"

TraderOrders == {id \in Ids : orders[id].by = "trader"}
\* The orders whose placement was answered with their id.
Acknowledged == TraderOrders \ lost

C12_PartialSubmissionDistinguishable ==
  /\ BuyLegError # SellLegError
  /\ placeErr \in {"", BuyLegError, SellLegError}
  /\ (pc = "exited" /\ traderExit = 1 /\ Acknowledged # {}) => placeErr = SellLegError
  /\ placeErr = SellLegError => Acknowledged # {}
  /\ placeErr = BuyLegError => Acknowledged = {}

\* The buy leg failed: the trader has exited with the buy-leg error.
C12_Witness ==
  /\ pc = "exited" /\ placeErr = BuyLegError /\ orders = <<>>

IdsAndFlags == <<buyTxId, sellTxId, sellOrderEdited, buyOrderEdited>>

\* C13: a failed edit leaves the leg's flag false and its id unchanged and
\* does not end the poll loop; whenever a cycle reads the other leg closed
\* and this leg open with the flag false, the edit is attempted (again); the
\* flag becomes true only in the step in which EditOrder returned a new id.
C13_FailedEditRetried ==
  [][\A leg \in Legs :
       /\ (pc \in {CheckPc(leg), SendPc(leg)} /\ pc' \notin {pc, SendPc(leg)}
             /\ editsOk' = editsOk) =>
            /\ ~Edited(leg)' /\ IdsAndFlags' = IdsAndFlags
            /\ pc' = "pollBuy" /\ traderExit' = -1
       /\ (pc = "pollSell" /\ editOrder /\ sellOrder' = "open"
             /\ buyOrder = "closed" /\ ~sellOrderEdited) => pc' = "editSellCheck"
       /\ (pc = "pollSell" /\ editOrder /\ sellOrder' = "closed"
             /\ buyOrder = "open" /\ ~buyOrderEdited) => pc' = "editBuyCheck"
       /\ (~Edited(leg) /\ Edited(leg)') =>
            pc = SendPc(leg) /\ editsOk'[leg] = editsOk[leg] + 1]_vars

\* An edit of the sell leg failed, a later cycle sent it again and that one
\* succeeded.
C13_Witness ==
  /\ editsSent["sell"] = 2 /\ editsOk["sell"] = 1
  /\ sellOrderEdited /\ pc = "pollBuy"

\* C15: a failed status read of either leg ends the cycle only: the loop goes
\* on with the next cycle, no edit is sent, no terminal decision is made, and
\* ids, flags and orders are as before.
C15_ReadErrorKeepsPolling ==
  [][(pc \in {"pollBuy", "pollSell"} /\ faults' # faults) =>
       /\ pc' = "pollBuy" /\ traderExit' = -1
       /\ IdsAndFlags' = IdsAndFlags
       /\ decision' \notin {"Filled", "Canceled"}
       /\ editsSent' = editsSent /\ orders' = orders]_vars

\* MaxFaults status reads have failed and the trader is still polling.
C15_Witness ==
  /\ faults = MaxFaults /\ pc = "pollBuy" /\ traderExit = -1
  /\ lost = {} /\ ~editOrder
  /\ buyTxId # NoId

\* C14: a successful edit replaces the leg's id by the id EditOrder returned,
\* a new one; the ids main holds are never retired ones, and no status or
\* edit request is sent for a retired id.
C14_RetiredIdNeverAskedAgain ==
  /\ [](/\ stale = {}
        /\ retired \cap {buyTxId, sellTxId} = {}
        /\ \A id \in retired : id \in Ids /\ orders[id].status \notin Live)
  /\ [][\A leg \in Legs :
          editsOk'[leg] # editsOk[leg] =>
            /\ LegId(leg)' = Len(orders') /\ LegId(leg)' \notin Ids
            /\ retired' = retired \cup {LegId(leg)}]_vars

\* The sell leg was edited and a later cycle has read the new sell id.
C14_Witness ==
  /\ retired # {} /\ sellOrderEdited
  /\ sellTxId \in returnedIds \ retired
  /\ pc = "pollBuy" /\ decision = "continue"
  /\ sellOrder = "partial"

\* C16: the open leg is edited to the closed leg's executed price plus the
\* margin (closed buy) or minus the margin (closed sell), for the whole volume.
C16_EditAtExecutedPrice ==
  rpc = "sent" =>
    /\ editRequest.leg = OtherLeg(closedLeg)
    /\ editRequest.volume = volume
    /\ \E tieUp \in BOOLEAN :
         editRequest.price = Fmt5(NewLimitNum(closedLeg, execPrice), tieUp)

WatchdogStep == wdpc' \notin {wdpc, "killed"}

\* C17: a cancel pass is the first or the second of its tick; the second is
\* made exactly when the first verification finds orders open; when the
\* second verification finds orders open the tick ends there; the balance
\* check is reached only over an empty list of open orders.
C17_CancelVerifyRetriedOnce ==
  /\ [](attempt \in 0 .. 2 /\ (wdpc \in {"cancelAll", "verify"} => attempt \in 1 .. 2))
  /\ [][/\ attempt' # attempt =>
             \/ wdpc = "getOpen" /\ attempt' = 1 /\ LiveIds # {}
             \/ wdpc = "verify" /\ attempt = 1 /\ attempt' = 2 /\ LiveIds # {}
        /\ (wdpc = "verify" /\ WatchdogStep /\ faults' = faults) =>
             /\ LiveIds = {} => wdpc' = "balance"
             /\ (LiveIds # {} /\ attempt = 1) => wdpc' = "cancelAll" /\ attempt' = 2
             /\ (LiveIds # {} /\ attempt = 2) => wdpc' = "tick"
        /\ (wdpc' = "cancelAll" /\ WatchdogStep) =>
             LiveIds # {} /\ wdpc \in {"getOpen", "verify"}
        /\ (wdpc' = "balance" /\ WatchdogStep) =>
             LiveIds = {} /\ wdpc \in {"getOpen", "verify"}]_vars

\* Orders were still open after the second verification: the tick was given
\* up without a balance check.
C17_Witness ==
  /\ wdpc = "tick" /\ attempt = 2 /\ faults = 0
  /\ canceled /\ LiveIds # {}

\* C18: the watchdog sends at most one exit order, a sell at the bid of the
\* breach tick for the available balance (10^-6 against 10^-5 units), sent
\* only for a positive balance; having sent it, it has completed.
C18_SingleExitOrder ==
  /\ Len(exitRequests) <= 1
  /\ \A k \in DOMAIN exitRequests :
       /\ exitRequests[k].type = "sell"
       /\ exitRequests[k].price = currentPrice
       /\ currentPrice > LimitPrice
       /\ available > 0
       /\ exitRequests[k].volume * 10 = available
       /\ wdpc = "done" /\ ctxDone
  /\ wdpc = "exitOrder" => available > 0 /\ exitRequests = <<>>

\* C19: once canceled is set, a tick that reads the price goes on to the
\* cancellation whatever the price is; the watchdog completes only with the
\* balance flat or its exit order accepted; and the loop launches no trader.
C19_CleanupRetriedUntilDone ==
  /\ [](wdpc = "done" =>
          \/ available = 0
          \/ \E id \in Ids : orders[id].by = "watchdog")
  /\ [][/\ (canceled /\ wdpc = "tick" /\ faults' = faults
               /\ <<wdpc, currentPrice>>' # <<wdpc, currentPrice>> /\ wdpc' # "killed")
             => wdpc' = "lock"
        /\ canceled => ~(lpc = "launch" /\ lpc' = "running")]_vars

\* C20: the nonces of the private requests are strictly increasing in request
\* order, whichever site and whichever process issued them.
C20_NoncesStrictlyIncreasing ==
  \A j \in 1..(Len(nonces) - 1) : nonces[j].nonce < nonces[j + 1].nonce

\* C21 (as claimed): the flag is read and written only by the holder of the
\* mutex, and it is the only thing the two tasks share: what main created,
\* its report file among it, is written by main alone.
C21_FlagOnlySharedState ==
  /\ lpc = "check" => mu = "main"
  /\ wdpc = "set" => mu = "wd"
  /\ \A k \in DOMAIN report : report[k].by = "main"

\* C21 (amended): main reads the flag and monitorPrice writes it only while
\* holding the mutex, never both at once, and the flag changes in no other
\* step; the report file is shared as well, outside the mutex.
C21_FlagUnderMutex ==
  /\ [](/\ lpc = "check" => mu = "main"
        /\ wdpc = "set" => mu = "wd"
        /\ ~(lpc = "check" /\ wdpc = "set"))
  /\ [][canceled' # canceled => wdpc = "set" /\ mu = "wd" /\ mu' = "free"]_vars

\* main reads the flag under the mutex while monitorPrice, past a breach,
\* waits for the mutex to set it.
C21_Witness ==
  /\ lpc = "check" /\ mu = "main" /\ ~canceled
  /\ wdpc = "lock" /\ currentPrice > LimitPrice
  /\ i = 2

\* C22: with an empty coin, a zero volume, a coin with no asset code or a
\* missing API key or secret, the trader leaves its first step exited with a
\* non-zero code, and has sent no request of any kind to the exchange.
C22_ConfigErrorBeforeAnyRequest ==
  (\/ config.coin = "" \/ config.volume = 0
   \/ config.coin \notin KnownCoins
   \/ config.apiKey = "" \/ config.apiSecret = "")
    => /\ sent = {} /\ orders = <<>> /\ faults = 0
       /\ pc \in {"setup", "exited"}
       /\ pc = "exited" =>
            traderExit = 1 /\ setupErr \in {"flags", "asset code", "credentials"}

\* The flags are fine and the coin known, the private key is missing: exited
\* with 1 on the credentials.
C22_Witness ==
  /\ config = [coin |-> "BTC", volume |-> 1, apiKey |-> "set", apiSecret |-> ""]
  /\ orderFlag
  /\ pc = "exited" /\ traderExit = 1 /\ setupErr = "credentials"
  /\ sent = {}

\* C23: a trader that has exited on a Filled or Canceled pair exited with 0;
\* one that exited on a setup error or a failed placement exited with a
\* non-zero code; and after a setup error no placement request was sent and
\* no order exists.
C23_ExitCodes ==
  pc = "exited" =>
    /\ decision \in {"Filled", "Canceled"} => traderExit = 0
    /\ (setupErr # "" \/ placeErr # "") => traderExit # 0
    /\ setupErr # "" => "place" \notin sent /\ orders = <<>>

\* C25: one notification is attempted for a pair read closed on both legs, in
\* the cycle that read it so, and none before or otherwise; once the trader
\* has reached Filled or Canceled and exited it sends nothing more.
C25_NotifiedExactlyOnce ==
  /\ [](/\ notified <= 1
        /\ decision # "Filled" => notified = 0
        /\ (pc = "exited" /\ decision = "Filled") => notified = 1)
  /\ [][/\ notified' # notified =>
             pc = "filled" /\ buyOrder = "closed" /\ sellOrder = "closed"
        /\ pc = "exited" =>
             UNCHANGED <<traderVars, editsSent, editsOk, returnedIds, reqVars>>]_vars

\* C27: without -order the trader sends balance and market-data queries only
\* (no placement, edit or status request), never enters the gate or the poll
\* loop, and the exchange's orders stay as they were; a run that passes the
\* checks ends with code 0.
C27_DryRunPlacesNothing ==
  ~orderFlag =>
    /\ sent \subseteq {"balance", "ticker", "ohlc"}
    /\ orders = <<>>
    /\ editsSent = [sell |-> 0, buy |-> 0]
    /\ buyTxId = NoId /\ sellTxId = NoId
    /\ pc \in {"setup", "balance", "market", "exited"}
    /\ (pc = "exited" /\ setupErr = "") => traderExit = 0

\* A dry run that passed both balance checks and fell off the end of main.
C27_Witness ==
  /\ ~orderFlag /\ config = GoodConfig
  /\ pc = "exited" /\ traderExit = 0 /\ setupErr = ""
  /\ sent = {"balance", "ticker", "ohlc"}

\* C29: an edit of a leg (EditOrder's status read and its request) is begun
\* only in a cycle that read the other leg closed and this leg open, with
\* -editorder set and this leg's flag false; with -editorder unset no edit
\* is ever sent.
C29_EditOnlyClosedAndOpen ==
  /\ [](\A leg \in Legs :
          /\ ~editOrder => editsSent[leg] = 0
          /\ pc \in {CheckPc(leg), SendPc(leg)} =>
               /\ editOrder /\ ~Edited(leg)
               /\ leg = "sell" => buyOrder = "closed" /\ sellOrder = "open"
               /\ leg = "buy" => sellOrder = "closed" /\ buyOrder = "open")
  /\ [][\A leg \in Legs :
          editsSent'[leg] # editsSent[leg] =>
            /\ pc = SendPc(leg) /\ editOrder /\ ~Edited(leg)
            /\ leg = "sell" => buyOrder = "closed" /\ sellOrder = "open"
            /\ leg = "buy" => sellOrder = "closed" /\ buyOrder = "open"]_vars

\* The buy leg was edited in a cycle that read sell closed and buy open; no
\* edit of the sell leg was sent.
C29_Witness ==
  /\ editOrder /\ editsOk["buy"] = 1 /\ editsSent["buy"] = 1
  /\ sellOrder = "closed" /\ buyOrder = "open"
  /\ editsSent["sell"] = 0

PlanResult(f, tieBuy, tieSell) ==
  [buy |-> RoundTo(RawBuyNum(spreadInfo, f), Decimals(spreadInfo.AskPrice), tieBuy),
   sell |-> RoundTo(RawSellNum(spreadInfo, f), Decimals(spreadInfo.AskPrice), tieSell)]

\* C28: a factor below 0 plans what factor 0 plans, a factor above 1 what
\* factor 1 plans: the same prices, the same acceptance or rejection, the
\* same estimates; the factor out of range is itself no error.
C28_FactorClamped ==
  (Planned /\ spreadNarrowFactor \notin 0 .. FDen) =>
    LET f == IF spreadNarrowFactor < 0 THEN 0 ELSE FDen
    IN  /\ \E tieBuy, tieSell \in BOOLEAN :
             /\ newBuyPrice = PlanResult(f, tieBuy, tieSell).buy
             /\ newSellPrice = PlanResult(f, tieBuy, tieSell).sell
        /\ npc \in {"reject", "exited"} /\ placed = <<>> => newSellPrice <= newBuyPrice
        /\ newSellPrice <= newBuyPrice => npc \in {"reject", "exited"} /\ placed = <<>>
        /\ newSellPrice > newBuyPrice =>
             /\ estimatedProfit = (newSellPrice - newBuyPrice) * volume
             /\ err \in {"", "error placing buy order", "error placing sell order"}

\* A factor below 0 planned the book's own prices and both legs were sent.
C28_Witness ==
  /\ spreadNarrowFactor < 0
  /\ spreadInfo.AskPrice > spreadInfo.BidPrice + 1
  /\ newBuyPrice = spreadInfo.BidPrice /\ newSellPrice = spreadInfo.AskPrice
  /\ Len(placed) = 2 /\ err = ""

C26_UntradeableShift ==
  /\ \A k \in PlacedBuys :
       /\ untradeable => placed[k].price * 10 = newBuyPrice * 10
       /\ ~untradeable => placed[k].price = newBuyPrice * 10
  /\ \A k \in PlacedSells :
       /\ untradeable => placed[k].price = (newSellPrice * 10) * 10
       /\ ~untradeable => placed[k].price = newSellPrice * 10
  /\ \A b \in PlacedBuys, a \in PlacedSells :
       (untradeable /\ 0 < newBuyPrice /\ newBuyPrice < newSellPrice) =>
         /\ placed[b].price < newBuyPrice * 10
         /\ newBuyPrice * 10 < newSellPrice * 10
         /\ newSellPrice * 10 < placed[a].price
  /\ npc = "polling" =>
       /\ estimatedProfit = (newSellPrice - newBuyPrice) * volume
       /\ estimatedPercentGain =
            [num |-> (newSellPrice - newBuyPrice) * 100, den |-> newBuyPrice]

\* Both legs were sent in untradeable mode and the trader polls.
C26_Witness ==
  /\ untradeable /\ npc = "polling" /\ Len(placed) = 2
  /\ placed[1].type = "buy" /\ placed[1].price * 10 = spreadInfo.BidPrice * 10
  /\ placed[2].type = "sell" /\ placed[2].price = spreadInfo.AskPrice * 100
  /\ estimatedProfit = (spreadInfo.AskPrice - spreadInfo.BidPrice) * volume
  /\ estimatedProfit > 0

\* C30: the pair is priced from the snapshot of the gate iteration that
\* passed: once a leg has been sent, the planned buy and sell prices are the
\* bid and ask of that snapshot, and that snapshot is within the boundary.
C30_PricedFromGateSnapshot ==
  placed # <<>> =>
    /\ newBuyPrice = gateInfo.BidPrice
    /\ newSellPrice = gateInfo.AskPrice
    /\ (newSellPrice - newBuyPrice) * 100 >= newBuyPrice * MinSpreadPercent

\* C31: cancellation is cooperative.  The step that sets the flag leaves the
\* trader run and the loop where they are; the loop reads the flag only at the
\* head of an iteration, holding the mutex, and every launch (the first
\* included) comes from such a read that found the flag false; the loop turns
\* to waiting for the watchdog only from such a read that found it true, when
\* no trader run is in flight.
C31_CooperativeCancellation ==
  [][/\ canceled' # canceled =>
          /\ canceled' = TRUE
          /\ UNCHANGED <<traderVars, lpc, i>>
     /\ (lpc' = "launch" /\ lpc # "launch") =>
          lpc = "check" /\ mu = "main" /\ ~canceled
     /\ (lpc' = "running" /\ lpc # "running") => lpc = "launch"
     /\ (lpc' = "wait" /\ lpc # "wait") =>
          lpc = "check" /\ mu = "main" /\ canceled /\ pc \in {"idle", "exited"}
     /\ (lpc = "check" /\ lpc' # "check") =>
          lpc' = (IF canceled THEN "wait" ELSE "launch")]_vars

\* The watchdog has just set the flag while a trader run is polling its
\* orders, and the run goes on.
C31_Witness ==
  /\ canceled /\ wdpc = "getOpen"
  /\ lpc = "running" /\ pc = "pollSell" /\ traderExit = -1

\* Where monitorPrice is inside the body of "if currentPrice > limitPrice".
InBreachBody == wdpc \in {"lock", "set", "getOpen", "cancelAll", "verify", "balance", "exitOrder"}

\* C32: the breach is the sole trigger.  The watchdog is inside the breach
\* body only with the bid of this tick strictly above the limit; the flag
\* changes only there, to true, and is true from the first open-orders query
\* on; cancel requests and exit orders are sent only there; a tick whose
\* fetch fails or whose bid is at or below the limit leaves the flag, the
\* orders and the exit requests as they were.
C32_BreachSoleTrigger ==
  /\ [](InBreachBody => currentPrice > LimitPrice)
  /\ [](wdpc \in {"getOpen", "cancelAll", "verify", "balance", "exitOrder"} => canceled)
  /\ [][/\ canceled' # canceled =>
             canceled' /\ wdpc = "set" /\ currentPrice > LimitPrice
        /\ (W_CancelAll \/ exitRequests' # exitRequests) =>
             InBreachBody /\ canceled /\ currentPrice > LimitPrice
        /\ (W_Tick /\ (faults' # faults \/ currentPrice' <= LimitPrice)) =>
             wdpc' = "tick" /\ UNCHANGED <<canceled, orders, exitRequests>>]_vars

\* A breach tick that has set the flag and is about to cancel open orders.
C32_Witness ==
  /\ wdpc = "cancelAll" /\ attempt = 1
  /\ canceled /\ currentPrice > LimitPrice
  /\ LiveIds # {}

\* C33: monitorPrice signals completion (cancel() and return) only from the
\* body of a breach tick whose latest GetOpenOrders returned no order; a
\* failed query, cancellation or verification, and a verification that still
\* lists orders after the second attempt, take it back to the ticker loop
\* with the context not cancelled.
C33_SignalsOnlyAfterEmptyListing ==
  [][/\ (wdpc' = "done" /\ wdpc # "done") =>
          /\ wdpc \in {"balance", "exitOrder"}
          /\ openOrders = "empty"
          /\ canceled /\ currentPrice > LimitPrice
          /\ ctxDone'
     /\ ((W_GetOpen \/ W_CancelAll \/ W_Verify) /\ faults' # faults) =>
          wdpc' = "tick" /\ ~ctxDone'
     /\ (W_Verify /\ attempt = 2 /\ LiveIds # {} /\ faults' = faults) =>
          wdpc' = "tick" /\ ~ctxDone'
     /\ (ctxDone' /\ ~ctxDone) => wdpc' = "done" \/ lpc' = "exited"]_vars

\* The watchdog has signalled after cancelling orders it had found open.
C33_Witness ==
  /\ wdpc = "done" /\ ctxDone /\ lpc # "exited"
  /\ openOrders = "empty" /\ attempt > 0
  /\ \E id \in Ids : orders[id].by = "trader" /\ orders[id].status = "canceled"

\* C34: supervised mode terminates after a breach.  Unless a trader run stays
\* in flight for ever, a set flag leads to the watchdog having signalled and
\* the supervisor having stopped.  (Requests fail at most MaxFaults times, so
\* exchange calls eventually succeed.)
C34_TerminatesAfterBreach ==
  \/ <>[](lpc = "running" /\ pc # "exited")
  \/ canceled ~> (lpc = "exited" /\ wdpc \in {"done", "killed"})

\* The statuses the exchange never changes again.
Final == {"closed", "canceled", "rejected", "expired"}

\* C35: the poll loop ends when the pair can make no further progress.  Once
\* both orders main holds are in a final status, in any combination, the
\* trader eventually exits.  (Requests fail at most MaxFaults times, so status
\* reads eventually succeed.)
C35_PollLoopTerminates ==
  (/\ pc \in {"pollBuy", "pollSell"}
   /\ orders[buyTxId].status \in Final
   /\ orders[sellTxId].status \in Final) ~> (pc = "exited")

\* C36: within one position at most one leg is repriced.  The exchange never
\* takes a status back from closed to open (StatusSteps); then the two
\* one-shot flags are never both true, and at most one edit request is
\* answered with a new id.
C36_AtMostOneLegRepriced ==
  /\ ~(sellOrderEdited /\ buyOrderEdited)
  /\ editsOk["sell"] + editsOk["buy"] <= 1
  /\ (editsOk["sell"] = 1) = sellOrderEdited
  /\ (editsOk["buy"] = 1) = buyOrderEdited

\* The buy leg was repriced, and the sell leg it followed stays closed while
\* the poll loop goes on with the new buy order open.
C36_Witness ==
  /\ buyOrderEdited /\ ~sellOrderEdited
  /\ pc = "pollSell" /\ buyOrder = "open"
  /\ orders[sellTxId].status = "closed"
  /\ buyTxId \notin retired /\ retired # {}

\* C37: a cancellation that cancels nothing is a failure.  Every answer with
\* count 0 is an error of CancelOrder; CancelAllOrders returns nil only when
\* each order it listed was asked once and answered with count >= 1, and with
\* an empty listing without any cancel request; a failed cancel is the last
\* request of the call, which returns an error with the rest unattempted.
C37_ZeroCanceledIsFailure ==
  LET run == cancelRun
      Asked37 == {run.asked[k].id : k \in DOMAIN run.asked}
  IN  /\ \A k \in DOMAIN run.asked :
           /\ run.asked[k].count = 0 => run.asked[k].err # ""
           /\ run.asked[k].err # "" =>
                /\ k = Len(run.asked)
                /\ run.pc = "returned" /\ run.result \notin {"", "nil"}
           /\ run.asked[k].id \in run.seen
           /\ \A j \in DOMAIN run.asked : j # k => run.asked[j].id # run.asked[k].id
      /\ run.result = "nil" =>
           /\ run.pc = "returned"
           /\ Asked37 = run.seen
           /\ \A k \in DOMAIN run.asked : run.asked[k].count >= 1 /\ run.asked[k].err = ""
      /\ (run.pc = "returned" /\ run.seen = {}) => run.asked = <<>>
      /\ run.todo = run.seen \ Asked37

\* CancelAllOrders has returned an error on an answer with count 0 (the order
\* had closed since the listing), with listed orders left unasked.
C37_Witness ==
  /\ cancelRun.pc = "returned" /\ cancelRun.result = "error canceling order"
  /\ cancelRun.todo # {}
  /\ cancelRun.asked[Len(cancelRun.asked)].count = 0

\* A trader run is started; the run before it has returned.
Launches == lpc = "launch" /\ lpc' = "running"

\* What the plain loop keeps whether or not a write to the report succeeds:
\* a run is started only in iterations 1..iterations, after the first only
\* when the run before it has exited with code 0; the counter only grows; a
\* run that exits non-zero ends the supervisor with exit code 1, and an ended
\* supervisor starts nothing.
LoopSequencing ==
  /\ Launches =>
       /\ i \in 1..MaxIterations
       /\ i > 1 => pc = "exited" /\ traderExit = 0
  /\ i' >= i
  /\ (lpc' = "launch" /\ lpc = "running") => i' = i + 1 /\ traderExit = 0
  /\ (lpc = "running" /\ lpc' # "running" /\ traderExit # 0) =>
       lpc' = "exited" /\ supExit' = 1
  /\ lpc = "exited" => lpc' = "exited"
  /\ \A k \in DOMAIN report' : report'[k].line = "SUCCESSFUL TRADE" => report'[k].n < i'

\* C38, as stated: one trade at a time, and iteration i+1 is started only
\* with the SUCCESSFUL TRADE line of iteration i in the report.
C38_OneTradeAtATime ==
  [][/\ LoopSequencing
     /\ (Launches /\ i > 1) =>
          \E k \in DOMAIN report :
            report[k].line = "SUCCESSFUL TRADE" /\ report[k].n = i - 1]_vars

\* C38, amended: one trade at a time; iteration i+1 is started only after
\* the run of iteration i has exited with code 0, the write of its line
\* having succeeded or failed.
C38_OneTradeAtATimeWriteAttempted ==
  [][LoopSequencing]_vars

\* The second iteration's run is in flight although the write of the first
\* iteration's success line failed.
C38_Witness ==
  /\ lpc = "running" /\ i = 2 /\ pc = "pollBuy"
  /\ report = <<>>
  /\ wdpc = "none"

\* C39: a SUCCESSFUL TRADE line is written only for an iteration whose pair
\* ended Filled; a pair that ended Canceled, by the watchdog or otherwise, is
\* not recorded as a successful trade.
C39_SuccessLineOnlyWhenFilled ==
  [][(/\ Len(report') = Len(report) + 1
      /\ report'[Len(report')].line = "SUCCESSFUL TRADE") =>
        /\ report'[Len(report')].n = i
        /\ decision = "Filled"]_vars

====
